---------------------------- MODULE Spec2Model ----------------------------
(***************************************************************************)
(* A model of the EXIF decoding engine of media.image                      *)
(* (ExifDataParser.Parse and everything it calls).                         *)
(*                                                                         *)
(* Go strings are TLA+ strings (Len, SubSeq and \o act on them), a byte is *)
(* a string of length one.  A float64 is a decimal [cls, m, e] standing    *)
(* for m * 10^-e, or NaN, or an infinity.  A time.Time is an instant       *)
(* (days since 0001-01-01, second of the day, nanosecond; all UTC) with a  *)
(* location, as in package time.                                           *)
(***************************************************************************)
EXTENDS Integers, Sequences, FiniteSets, TLC

(***************************************************************************)
(* Bounds of the model.                                                    *)
(***************************************************************************)
\* The longest sequence of directory entries an EXIF payload holds.
MaxEntries == 2

(***************************************************************************)
(* Bytes and strings.                                                      *)
(***************************************************************************)
Char(s, i) == SubSeq(s, i, i)

Digits == <<"0", "1", "2", "3", "4", "5", "6", "7", "8", "9">>

isDigit(s, i) == i >= 1 /\ i <= Len(s) /\ \E d \in 1..10 : Digits[d] = Char(s, i)

DigitVal(c) == (CHOOSE d \in 1..10 : Digits[d] = c) - 1

AllDigits(s) == \A i \in 1..Len(s) : isDigit(s, i)

RECURSIVE DecValue(_)
\* The number a string of decimal digits spells.
DecValue(s) ==
    IF Len(s) = 0 THEN 0
    ELSE 10 * DecValue(SubSeq(s, 1, Len(s) - 1)) + DigitVal(Char(s, Len(s)))

HasPrefix(s, prefix) ==
    Len(s) >= Len(prefix) /\ SubSeq(s, 1, Len(prefix)) = prefix

RECURSIVE IndexFrom(_, _, _)
IndexFrom(s, sep, i) ==
    IF i > Len(s) THEN 0
    ELSE IF Char(s, i) = sep THEN i
    ELSE IndexFrom(s, sep, i + 1)

\* The position of the first occurrence of the byte sep in s, 0 if none.
IndexByte(s, sep) == IndexFrom(s, sep, 1)

RECURSIVE Split(_, _)
\* strings.Split(s, sep) for a separator of one byte.
Split(s, sep) ==
    LET i == IndexByte(s, sep)
    IN  IF i = 0 THEN <<s>>
        ELSE <<SubSeq(s, 1, i - 1)>> \o Split(SubSeq(s, i + 1, Len(s)), sep)

Lower(c) ==
    CASE c = "N" -> "n" [] c = "A" -> "a" [] c = "I" -> "i" [] c = "F" -> "f"
      [] c = "T" -> "t" [] c = "Y" -> "y" [] c = "E" -> "e" [] OTHER -> c

RECURSIVE ToLower(_)
ToLower(s) == IF Len(s) = 0 THEN "" ELSE Lower(Char(s, 1)) \o ToLower(Tail(s))

(***************************************************************************)
(* strconv: the conversions setFieldValue and NewRational call.            *)
(***************************************************************************)
\* strconv.ParseInt(value, 10, 64) and strconv.Atoi: an optional sign and
\* at least one decimal digit, nothing else.
ParseInt(value) ==
    LET signed == Len(value) > 0 /\ Char(value, 1) \in {"+", "-"}
        body   == IF signed THEN Tail(value) ELSE value
    IN  IF Len(body) = 0 \/ ~AllDigits(body)
        THEN [ok |-> FALSE, v |-> 0]
        ELSE [ok |-> TRUE,
              v  |-> IF signed /\ Char(value, 1) = "-"
                     THEN 0 - DecValue(body) ELSE DecValue(body)]

FloatZero == [cls |-> "num", m |-> 0, e |-> 0]
FloatNaN == [cls |-> "nan", m |-> 0, e |-> 0]
FloatInf(sign) == [cls |-> "inf", m |-> sign, e |-> 0]

RECURSIVE Float(_, _)
\* The float64 m * 10^-e, in lowest terms of the power of ten.
Float(m, e) ==
    IF m = 0 THEN FloatZero
    ELSE IF e > 0 /\ m % 10 = 0 THEN Float(m \div 10, e - 1)
    ELSE [cls |-> "num", m |-> m, e |-> e]

IsNaN(f) == f.cls = "nan"

RECURSIVE NumDigits(_)
\* The number of decimal digits of n > 0.
NumDigits(n) == IF n < 10 THEN 1 ELSE 1 + NumDigits(n \div 10)

RECURSIVE Scale(_, _)
\* m * 10^k for k >= 0.
Scale(m, k) == IF k = 0 THEN m ELSE Scale(m * 10, k - 1)

RECURSIVE FloatBig(_, _)
\* The float64 m * 10^k for k > 0 and m # 0, too large for an integer of the
\* model: its mantissa without trailing zeros and its exponent.
FloatBig(m, k) ==
    IF m % 10 = 0 THEN FloatBig(m \div 10, k + 1)
    ELSE [cls |-> "num", m |-> m, e |-> 0 - k]

\* What ParseFloat returns for sign * m * 10^k, m >= 0: above the range of
\* float64 an infinity together with a range error, below it zero.
FloatOf(sign, m, k) ==
    IF m = 0 THEN [ok |-> TRUE, v |-> FloatZero]
    ELSE IF NumDigits(m) + k > 309 THEN [ok |-> FALSE, v |-> FloatInf(sign)]
    ELSE IF NumDigits(m) + k < 0 - 400 THEN [ok |-> TRUE, v |-> FloatZero]
    ELSE IF k <= 0 THEN [ok |-> TRUE, v |-> Float(sign * m, 0 - k)]
    ELSE IF NumDigits(m) + k <= 9
    THEN [ok |-> TRUE, v |-> Float(sign * Scale(m, k), 0)]
    ELSE [ok |-> TRUE, v |-> FloatBig(sign * m, k)]

\* strconv.ParseFloat(value, 64) on decimal notation ("12", "-1.50", ".5",
\* "5.", "1e3", "2.5E-1") away from the limits of float64 and beyond them
\* ("1e999"), on "nan" and on the infinities.  ok is err == nil; on a syntax
\* error the value is 0, on a range error it is an infinity.
ParseFloat(value) ==
    LET signed == Len(value) > 0 /\ Char(value, 1) \in {"+", "-"}
        sign   == IF signed /\ Char(value, 1) = "-" THEN 0 - 1 ELSE 1
        body   == IF signed THEN Tail(value) ELSE value
        Decimal(mant, exp) ==
            LET dot  == IndexByte(mant, ".")
                int  == IF dot = 0 THEN mant ELSE SubSeq(mant, 1, dot - 1)
                frac == IF dot = 0 THEN "" ELSE SubSeq(mant, dot + 1, Len(mant))
            IN  IF Len(int) + Len(frac) = 0 \/ ~AllDigits(int) \/ ~AllDigits(frac)
                   \/ ~exp.ok
                THEN [ok |-> FALSE, v |-> FloatZero]
                ELSE FloatOf(sign, DecValue(int \o frac), exp.v - Len(frac))
        Split0(e) ==
            IF e = 0 THEN Decimal(body, [ok |-> TRUE, v |-> 0])
            ELSE Decimal(SubSeq(body, 1, e - 1),
                         ParseInt(SubSeq(body, e + 1, Len(body))))
    IN  IF ~signed /\ ToLower(value) = "nan"
        THEN [ok |-> TRUE, v |-> FloatNaN]
        ELSE IF ToLower(body) \in {"inf", "infinity"}
        THEN [ok |-> TRUE, v |-> FloatInf(sign)]
        ELSE Split0(IndexByte(ToLower(body), "e"))

(***************************************************************************)
(* Rational (exif_data_types.go).                                          *)
(***************************************************************************)
RationalZero == [Numerator |-> 0, Denominator |-> 0]

NewRational(s) ==
    LET parts == Split(s, "/")
    IN  IF Len(parts) # 2 THEN [ok |-> FALSE, v |-> RationalZero]
        ELSE IF ~ParseInt(parts[1]).ok THEN [ok |-> FALSE, v |-> RationalZero]
        ELSE IF ~ParseInt(parts[2]).ok THEN [ok |-> FALSE, v |-> RationalZero]
        ELSE [ok |-> TRUE,
              v  |-> [Numerator   |-> ParseInt(parts[1]).v,
                      Denominator |-> ParseInt(parts[2]).v]]

(***************************************************************************)
(* Package time: calendar, instants, locations.                            *)
(***************************************************************************)
IsLeap(y) == y % 4 = 0 /\ (y % 100 # 0 \/ y % 400 = 0)

\* The days of the year before month m (m = 13: the days of the year).
DaysBefore(m, y) ==
    <<0, 31, 59, 90, 120, 151, 181, 212, 243, 273, 304, 334, 365>>[m]
    + (IF m > 2 /\ IsLeap(y) THEN 1 ELSE 0)

DaysIn(m, y) == DaysBefore(m + 1, y) - DaysBefore(m, y)

\* The days from 0001-01-01 to the day y-m-d.
DaysFromCivil(y, m, d) ==
    365 * (y - 1) + ((y - 1) \div 4) - ((y - 1) \div 100) + ((y - 1) \div 400)
    + DaysBefore(m, y) + d - 1

Min(a, b) == IF a < b THEN a ELSE b

\* The day y-m-d that lies n days after 0001-01-01.
CivilFromDays(n) ==
    LET n400 == n \div 146097
        r400 == n % 146097
        n100 == Min(r400 \div 36524, 3)
        r100 == r400 - 36524 * n100
        n4   == r100 \div 1461
        r4   == r100 % 1461
        n1   == Min(r4 \div 365, 3)
        yday == r4 - 365 * n1
        y    == 400 * n400 + 100 * n100 + 4 * n4 + n1 + 1
        m    == CHOOSE k \in 1..12 :
                    DaysBefore(k, y) <= yday /\ yday < DaysBefore(k + 1, y)
    IN  [year |-> y, month |-> m, day |-> yday - DaysBefore(m, y) + 1]

\* An instant: the day since 0001-01-01 and the second of that day, in UTC.
Instant(day, sod) == [day |-> day, sod |-> sod]

AddSec(i, s) ==
    Instant(i.day + ((i.sod + s) \div 86400), (i.sod + s) % 86400)

Before(a, b) == a.day < b.day \/ (a.day = b.day /\ a.sod < b.sod)

At(y, m, d, hh, mm) == Instant(DaysFromCivil(y, m, d), hh * 3600 + mm * 60)

\* The ends of time of Location.lookup.
Alpha == Instant(0 - 1000000, 0)
Omega == Instant(1000000000, 0)

\* *time.Location values: time.UTC, time.Local, a time.FixedZone, and a
\* location loaded from the zone database.
UTC == [kind |-> "UTC", name |-> "UTC", off |-> 0]
Local == [kind |-> "Local", name |-> "Local", off |-> 0]
FixedZone(name, offset) == [kind |-> "fixed", name |-> name, off |-> offset]
ZoneLoc(name) == [kind |-> "zone", name |-> name, off |-> 0]

\* The zone database LoadLocation reads: per zone the periods of constant
\* UTC offset (seconds east), each from its first instant to the next one's.
\* The years 2024 to 2026 carry their daylight-saving changes.
ZoneDB ==
    [z \in {"Etc/UTC", "Europe/Rome", "America/New_York", "Asia/Kolkata",
            "America/St_Johns"} |->
        CASE z = "Etc/UTC" -> << [start |-> Alpha, off |-> 0] >>
          [] z = "Asia/Kolkata" -> << [start |-> Alpha, off |-> 19800] >>
          [] z = "Europe/Rome" ->
               << [start |-> Alpha, off |-> 3600],
                  [start |-> At(2024, 3, 31, 1, 0), off |-> 7200],
                  [start |-> At(2024, 10, 27, 1, 0), off |-> 3600],
                  [start |-> At(2025, 3, 30, 1, 0), off |-> 7200],
                  [start |-> At(2025, 10, 26, 1, 0), off |-> 3600],
                  [start |-> At(2026, 3, 29, 1, 0), off |-> 7200],
                  [start |-> At(2026, 10, 25, 1, 0), off |-> 3600] >>
          [] z = "America/New_York" ->
               << [start |-> Alpha, off |-> 0 - 18000],
                  [start |-> At(2024, 3, 10, 7, 0), off |-> 0 - 14400],
                  [start |-> At(2024, 11, 3, 6, 0), off |-> 0 - 18000],
                  [start |-> At(2025, 3, 9, 7, 0), off |-> 0 - 14400],
                  [start |-> At(2025, 11, 2, 6, 0), off |-> 0 - 18000],
                  [start |-> At(2026, 3, 8, 7, 0), off |-> 0 - 14400],
                  [start |-> At(2026, 11, 1, 6, 0), off |-> 0 - 18000] >>
          [] z = "America/St_Johns" ->
               << [start |-> Alpha, off |-> 0 - 12600],
                  [start |-> At(2024, 3, 10, 5, 30), off |-> 0 - 9000],
                  [start |-> At(2024, 11, 3, 4, 30), off |-> 0 - 12600],
                  [start |-> At(2025, 3, 9, 5, 30), off |-> 0 - 9000],
                  [start |-> At(2025, 11, 2, 4, 30), off |-> 0 - 12600],
                  [start |-> At(2026, 3, 8, 5, 30), off |-> 0 - 9000],
                  [start |-> At(2026, 11, 1, 4, 30), off |-> 0 - 12600] >>]

\* time.LoadLocation(name): the location, or an error for a name the zone
\* database of the machine does not hold.
LoadLocation(name) ==
    IF name \in DOMAIN ZoneDB
    THEN [ok |-> TRUE, loc |-> ZoneLoc(name)]
    ELSE [ok |-> FALSE, loc |-> UTC]

\* The periods of a location; localZone is the zone time.Local stands for.
Periods(loc, localZone) ==
    CASE loc.kind = "UTC" -> << [start |-> Alpha, off |-> 0] >>
      [] loc.kind = "fixed" -> << [start |-> Alpha, off |-> loc.off] >>
      [] OTHER -> ZoneDB[IF loc.kind = "Local" THEN localZone ELSE loc.name]

\* Location.lookup: the offset in force at instant i, and the period
\* [start, end) it is in force for.
Lookup(loc, i, localZone) ==
    LET Among(ps) ==
            LET k == CHOOSE n \in 1..Len(ps) :
                         /\ ~Before(i, ps[n].start)
                         /\ n < Len(ps) => Before(i, ps[n + 1].start)
            IN  [offset |-> ps[k].off,
                 start  |-> ps[k].start,
                 end    |-> IF k < Len(ps) THEN ps[k + 1].start ELSE Omega]
    IN  Among(Periods(loc, localZone))

\* A time.Time: an instant, its nanosecond, and the location it is shown in.
Time(i, nsec, loc) == [day |-> i.day, sod |-> i.sod, nsec |-> nsec, loc |-> loc]

TimeZero == Time(Instant(0, 0), 0, UTC)

InstantOf(t) == Instant(t.day, t.sod)

IsZero(t) == t.day = 0 /\ t.sod = 0 /\ t.nsec = 0

\* Time.In(loc): the same instant, shown in loc.
In(t, loc) == [t EXCEPT !.loc = loc]

\* Time.Zone(): the offset in force at t in t's location.
ZoneOffset(t, localZone) == Lookup(t.loc, InstantOf(t), localZone).offset

\* Time.Year() ... Time.Nanosecond(): the wall clock t shows in its location.
Clock(t, localZone) ==
    LET Wall(w, c) ==
            [year |-> c.year, month |-> c.month, day |-> c.day,
             hour |-> w.sod \div 3600, minute |-> (w.sod % 3600) \div 60,
             second |-> w.sod % 60, nsec |-> t.nsec]
        Shown(w) == Wall(w, CivilFromDays(w.day))
    IN  Shown(AddSec(InstantOf(t), ZoneOffset(t, localZone)))

\* time.Date(c.year, ..., c.nsec, loc) for a wall clock c in range: the
\* instant that shows c in loc; a wall clock that loc skips or repeats is
\* read with the offset of one of the two periods around the change.
Date(c, loc, localZone) ==
    LET Offset(l, utc) ==
            IF l.offset # 0 /\ (Before(utc, l.start) \/ ~Before(utc, l.end))
            THEN Lookup(loc, utc, localZone).offset
            ELSE l.offset
        Guess(unix, l) ==
            Time(AddSec(unix, 0 - Offset(l, AddSec(unix, 0 - l.offset))),
                 c.nsec, loc)
        At0(unix) == Guess(unix, Lookup(loc, unix, localZone))
    IN  At0(Instant(DaysFromCivil(c.year, c.month, c.day),
                    c.hour * 3600 + c.minute * 60 + c.second))

(***************************************************************************)
(* time.Parse on the layouts of timeFormats.  A layout is the sequence of  *)
(* its chunks: the reference-time elements ("2006", "01", "02", "15",      *)
(* "04", "05", ".000", "-0700", "Z07:00") and the literal bytes between.   *)
(***************************************************************************)
StdChunks == {"2006", "01", "02", "15", "04", "05", ".000", "-0700", "Z07:00"}

BareLayout == <<"2006", ":", "01", ":", "02", " ", "15", ":", "04", ":", "05">>

\* "2006:01:02 15:04:05", "2006:01:02 15:04:05-0700",
\* "2006:01:02 15:04:05.000Z", "2006:01:02 15:04:05Z07:00"
timeFormats ==
    << BareLayout,
       BareLayout \o <<"-0700">>,
       BareLayout \o <<".000", "Z">>,
       BareLayout \o <<"Z07:00">> >>

RECURSIVE Pow10(_)
Pow10(n) == IF n <= 0 THEN 1 ELSE 10 * Pow10(n - 1)

\* time.atoi: an optional sign, then digits only (none spells 0).
Atoi(s) ==
    LET signed == Len(s) > 0 /\ Char(s, 1) \in {"+", "-"}
        body   == IF signed THEN Tail(s) ELSE s
    IN  IF ~AllDigits(body) THEN [ok |-> FALSE, n |-> 0]
        ELSE [ok |-> TRUE,
              n  |-> IF signed /\ Char(s, 1) = "-"
                     THEN 0 - DecValue(body) ELSE DecValue(body)]

\* time.getnum: one or two leading digits; two are required when fixed.
getnum(s, fixed) ==
    IF ~isDigit(s, 1) THEN [ok |-> FALSE, n |-> 0, rest |-> s]
    ELSE IF ~isDigit(s, 2)
    THEN IF fixed THEN [ok |-> FALSE, n |-> 0, rest |-> s]
         ELSE [ok |-> TRUE, n |-> DigitVal(Char(s, 1)), rest |-> Tail(s)]
    ELSE [ok |-> TRUE, n |-> DecValue(SubSeq(s, 1, 2)),
          rest |-> SubSeq(s, 3, Len(s))]

\* time.parseNanoseconds(value, nbytes): a period or comma and the digits
\* after it, read as a fraction of a second.
parseNanoseconds(value, nbytes) ==
    LET n == Min(nbytes, 10)
        a == Atoi(SubSeq(value, 2, n))
    IN  IF ~(Char(value, 1) \in {".", ","}) \/ ~a.ok \/ a.n < 0
        THEN [ok |-> FALSE, ns |-> 0]
        ELSE [ok |-> TRUE, ns |-> a.n * Pow10(10 - n)]

RECURSIVE cutspace(_)
cutspace(s) == IF Len(s) > 0 /\ Char(s, 1) = " " THEN cutspace(Tail(s)) ELSE s

\* The number of leading bytes of s that read as a fraction "." digits.
FracLen(s) ==
    CHOOSE n \in 2..Len(s) :
        /\ \A i \in 2..n : isDigit(s, i)
        /\ ~isDigit(s, n + 1)

ParseStart(value) ==
    [value |-> value, year |-> 0, month |-> 1, day |-> 1, hour |-> 0,
     min |-> 0, sec |-> 0, nsec |-> 0, z |-> FALSE, zoneOffset |-> 0 - 1,
     err |-> FALSE]

Bad(st) == [st EXCEPT !.err = TRUE]

\* The zone chunks: sign, hours and minutes, split as the chunk writes them.
ParseZone(st, colon) ==
    LET v    == st.value
        need == IF colon THEN 6 ELSE 5
        hr   == getnum(SubSeq(v, 2, 3), TRUE)
        mm   == getnum(IF colon THEN SubSeq(v, 5, 6) ELSE SubSeq(v, 4, 5), TRUE)
        off  == (hr.n * 60 + mm.n) * 60
    IN  IF Len(v) < need \/ (colon /\ Char(v, 4) # ":") THEN Bad(st)
        ELSE IF ~hr.ok \/ ~mm.ok \/ hr.n > 24 \/ mm.n > 60 THEN Bad(st)
        ELSE IF Char(v, 1) = "+"
        THEN [st EXCEPT !.zoneOffset = off, !.value = SubSeq(v, need + 1, Len(v))]
        ELSE IF Char(v, 1) = "-"
        THEN [st EXCEPT !.zoneOffset = 0 - off,
                        !.value = SubSeq(v, need + 1, Len(v))]
        ELSE Bad(st)

\* One chunk of the layout against the head of the value; nextStd is the
\* next reference-time element of the layout after it ("" if none).
ParseChunk(tok, nextStd, st) ==
    LET v == st.value
        g == getnum(v, tok # "15")
    IN  CASE tok = "2006" ->
               IF Len(v) < 4 \/ ~isDigit(v, 1) \/ ~Atoi(SubSeq(v, 1, 4)).ok
               THEN Bad(st)
               ELSE [st EXCEPT !.year = Atoi(SubSeq(v, 1, 4)).n,
                               !.value = SubSeq(v, 5, Len(v))]
          [] tok = "01" ->
               IF ~g.ok \/ g.n <= 0 \/ 12 < g.n THEN Bad(st)
               ELSE [st EXCEPT !.month = g.n, !.value = g.rest]
          [] tok = "02" ->
               IF ~g.ok THEN Bad(st)
               ELSE [st EXCEPT !.day = g.n, !.value = g.rest]
          [] tok = "15" ->
               IF ~g.ok \/ 24 <= g.n THEN Bad(st)
               ELSE [st EXCEPT !.hour = g.n, !.value = g.rest]
          [] tok = "04" ->
               IF ~g.ok \/ 60 <= g.n THEN Bad(st)
               ELSE [st EXCEPT !.min = g.n, !.value = g.rest]
          [] tok = "05" ->
               IF ~g.ok \/ 60 <= g.n THEN Bad(st)
               ELSE IF /\ Len(g.rest) >= 2
                       /\ Char(g.rest, 1) \in {".", ","}
                       /\ isDigit(g.rest, 2)
                       /\ nextStd # ".000"
               THEN \* a fraction in the value that the layout does not name
                    LET n == FracLen(g.rest)
                        f == parseNanoseconds(g.rest, n)
                    IN  IF ~f.ok THEN Bad(st)
                        ELSE [st EXCEPT !.sec = g.n, !.nsec = f.ns,
                                        !.value = SubSeq(g.rest, n + 1, Len(g.rest))]
               ELSE [st EXCEPT !.sec = g.n, !.value = g.rest]
          [] tok = ".000" ->
               IF Len(v) < 4 \/ ~parseNanoseconds(v, 4).ok THEN Bad(st)
               ELSE [st EXCEPT !.nsec = parseNanoseconds(v, 4).ns,
                               !.value = SubSeq(v, 5, Len(v))]
          [] tok = "-0700" -> ParseZone(st, FALSE)
          [] tok = "Z07:00" ->
               IF Len(v) >= 1 /\ Char(v, 1) = "Z"
               THEN [st EXCEPT !.z = TRUE, !.value = Tail(v)]
               ELSE ParseZone(st, TRUE)
          [] tok = " " ->  \* time.skip: a space stands for a run of spaces
               IF Len(v) > 0 /\ Char(v, 1) # " " THEN Bad(st)
               ELSE [st EXCEPT !.value = cutspace(v)]
          [] OTHER ->      \* time.skip: a literal byte
               IF Len(v) = 0 \/ Char(v, 1) # tok THEN Bad(st)
               ELSE [st EXCEPT !.value = Tail(v)]

NextStd(layout, k) ==
    IF \E j \in (k + 1)..Len(layout) : layout[j] \in StdChunks
    THEN layout[CHOOSE j \in (k + 1)..Len(layout) :
                    /\ layout[j] \in StdChunks
                    /\ \A i \in (k + 1)..(j - 1) : layout[i] \notin StdChunks]
    ELSE ""

RECURSIVE ParseChunks(_, _, _)
ParseChunks(layout, k, st) ==
    IF st.err \/ k > Len(layout) THEN st
    ELSE ParseChunks(layout, k + 1,
                     ParseChunk(layout[k], NextStd(layout, k), st))

\* time.Parse(layout, value); localZone is the zone time.Local stands for.
\* A value with an offset is given the location Local when Local has that
\* offset at that instant, and a fixed zone otherwise; a value with the
\* marker Z, or with no zone at all, is given time.UTC.
TimeParse(layout, value, localZone) ==
    LET Zoned(st, t, u) ==
            IF st.z THEN [ok |-> TRUE, t |-> t]
            ELSE IF st.zoneOffset # 0 - 1
            THEN IF Lookup(Local, u, localZone).offset = st.zoneOffset
                 THEN [ok |-> TRUE, t |-> Time(u, st.nsec, Local)]
                 ELSE [ok |-> TRUE,
                       t  |-> Time(u, st.nsec, FixedZone("", st.zoneOffset))]
            ELSE [ok |-> TRUE, t |-> t]
        InUTC(st, t) == Zoned(st, t, AddSec(InstantOf(t), 0 - st.zoneOffset))
        Parsed(st) ==
            IF st.err \/ Len(st.value) > 0 THEN [ok |-> FALSE, t |-> TimeZero]
            ELSE IF st.day < 1 \/ st.day > DaysIn(st.month, st.year)
            THEN [ok |-> FALSE, t |-> TimeZero]
            ELSE InUTC(st, Date([year |-> st.year, month |-> st.month,
                                 day |-> st.day, hour |-> st.hour,
                                 minute |-> st.min, second |-> st.sec,
                                 nsec |-> st.nsec], UTC, localZone))
    IN  Parsed(ParseChunks(layout, 1, ParseStart(value)))

RECURSIVE parseTimeFrom(_, _, _)
parseTimeFrom(k, value, localZone) ==
    LET Try(r) == IF r.ok THEN r ELSE parseTimeFrom(k + 1, value, localZone)
    IN  IF k > Len(timeFormats) THEN [ok |-> FALSE, t |-> TimeZero]
        ELSE Try(TimeParse(timeFormats[k], value, localZone))

\* parseTime: the first layout of timeFormats that parses the value wins.
parseTime(value, localZone) == parseTimeFrom(1, value, localZone)

(***************************************************************************)
(* ImageData (image_data.go): the fields of the record in declared order,  *)
(* each with its Go type and the value of its `exif` struct tag.           *)
(***************************************************************************)
Fields ==
    << [Name |-> "GPSLatitude", Kind |-> "float64", Exif |-> "GPSLatitude"],
       [Name |-> "GPSLongitude", Kind |-> "float64", Exif |-> "GPSLongitude"],
       [Name |-> "GPSAltitude", Kind |-> "float64", Exif |-> "GPSAltitude"],
       [Name |-> "GPSTimeZone", Kind |-> "string", Exif |-> ""],
       [Name |-> "GPSTimestamp", Kind |-> "Time", Exif |-> "GPSDateStamp,GPSTimeStamp"],
       [Name |-> "GPSTimestampLocal", Kind |-> "Time", Exif |-> ""],
       [Name |-> "GPSProcessingMethod", Kind |-> "string", Exif |-> "GPSProcessingMethod"],
       [Name |-> "GPSStatus", Kind |-> "string", Exif |-> "GPSStatus"],
       [Name |-> "GPSSatellites", Kind |-> "string", Exif |-> "GPSSatellites"],
       [Name |-> "GPSHPositioningError", Kind |-> "float64", Exif |-> "GPSHPositioningError"],
       [Name |-> "GPSSpeed", Kind |-> "float64", Exif |-> "GPSSpeed"],
       [Name |-> "GPSTrack", Kind |-> "float64", Exif |-> "GPSTrack"],
       [Name |-> "GPSImgDirection", Kind |-> "float64", Exif |-> "GPSImgDirection"],
       [Name |-> "GPSDestLatitude", Kind |-> "float64", Exif |-> "GPSDestLatitude"],
       [Name |-> "GPSDestLongitude", Kind |-> "float64", Exif |-> "GPSDestLongitude"],
       [Name |-> "GPSDestBearing", Kind |-> "float64", Exif |-> "GPSDestBearing"],
       [Name |-> "GPSDestDistance", Kind |-> "float64", Exif |-> "GPSDestDistance"],
       [Name |-> "CameraMake", Kind |-> "string", Exif |-> "Make,CameraMake"],
       [Name |-> "CameraModel", Kind |-> "string", Exif |-> "Model,CameraModel"],
       [Name |-> "CameraExposure", Kind |-> "string", Exif |-> "ExposureTime,Exposure"],
       [Name |-> "ISOSpeed", Kind |-> "int", Exif |-> "ISOSpeedRatings,ISO"],
       [Name |-> "ShutterSpeed", Kind |-> "string", Exif |-> "ShutterSpeedValue"],
       [Name |-> "Software", Kind |-> "string", Exif |-> "Software"],
       [Name |-> "DateTime", Kind |-> "Time", Exif |-> "DateTime,CreateDate"],
       [Name |-> "DateTimeOriginal", Kind |-> "Time", Exif |-> "DateTimeOriginal,OriginalDateTime"],
       [Name |-> "DateTimeDigitized", Kind |-> "Time", Exif |-> "DateTimeDigitized,DigitizedDateTime"],
       [Name |-> "TimeOffset", Kind |-> "string", Exif |-> "OffsetTime,OffsetTimeOriginal,OffsetTimeDigitized"],
       [Name |-> "SubSecOriginal", Kind |-> "string", Exif |-> "SubSecTimeOriginal,SubSecTime"],
       [Name |-> "HasTimeOffset", Kind |-> "bool", Exif |-> ""],
       [Name |-> "LensMake", Kind |-> "string", Exif |-> "LensMake"],
       [Name |-> "LensModel", Kind |-> "string", Exif |-> "LensModel,Lens"],
       [Name |-> "LensFocalLength", Kind |-> "string", Exif |-> "FocalLength"],
       [Name |-> "LensAperture", Kind |-> "string", Exif |-> "FNumber,ApertureValue"],
       [Name |-> "LensFocalLength35mm", Kind |-> "string", Exif |-> "FocalLengthIn35mmFilm"],
       [Name |-> "LensMaxAperture", Kind |-> "string", Exif |-> "MaxApertureValue"],
       [Name |-> "LensMinAperture", Kind |-> "string", Exif |-> "MinApertureValue"],
       [Name |-> "LensMaxFocalLength", Kind |-> "string", Exif |-> "MaxFocalLength"],
       [Name |-> "ImageWidth", Kind |-> "int", Exif |-> "ImageWidth,PixelXDimension,ExifImageWidth,SourceImageWidth"],
       [Name |-> "ImageHeight", Kind |-> "int", Exif |-> "ImageHeight,PixelYDimension,ExifImageHeight,SourceImageHeight"],
       [Name |-> "ImageOrientation", Kind |-> "int", Exif |-> "Orientation"],
       [Name |-> "ColorSpace", Kind |-> "string", Exif |-> "ColorSpace"],
       [Name |-> "Compression", Kind |-> "string", Exif |-> "Compression"],
       [Name |-> "XResolution", Kind |-> "Rational", Exif |-> "XResolution"],
       [Name |-> "YResolution", Kind |-> "Rational", Exif |-> "YResolution"],
       [Name |-> "ResolutionUnit", Kind |-> "string", Exif |-> "ResolutionUnit"],
       [Name |-> "Artist", Kind |-> "string", Exif |-> "Artist,Creator"],
       [Name |-> "Copyright", Kind |-> "string", Exif |-> "Copyright,CopyrightNotice"],
       [Name |-> "Description", Kind |-> "string", Exif |-> "ImageDescription,Description"],
       [Name |-> "WhiteBalance", Kind |-> "string", Exif |-> "WhiteBalance"],
       [Name |-> "Flash", Kind |-> "string", Exif |-> "Flash,FlashFired"],
       [Name |-> "MeteringMode", Kind |-> "string", Exif |-> "MeteringMode"],
       [Name |-> "ExposureProgram", Kind |-> "string", Exif |-> "ExposureProgram"],
       [Name |-> "SceneCaptureType", Kind |-> "string", Exif |-> "SceneCaptureType"],
       [Name |-> "SubjectDistance", Kind |-> "float64", Exif |-> "SubjectDistance"],
       [Name |-> "DigitalZoomRatio", Kind |-> "float64", Exif |-> "DigitalZoomRatio"] >>

FieldNames == {Fields[i].Name : i \in 1..Len(Fields)}

FieldByName ==
    [n \in FieldNames |-> Fields[CHOOSE i \in 1..Len(Fields) : Fields[i].Name = n]]

FieldOf(name) == FieldByName[name]

\* The zero value of a Go type.
ZeroOf(kind) ==
    CASE kind = "string" -> ""
      [] kind = "int" -> 0
      [] kind = "float64" -> FloatZero
      [] kind = "Time" -> TimeZero
      [] kind = "Rational" -> RationalZero
      [] kind = "bool" -> FALSE

\* ImageData{}
ImageDataZero == [n \in FieldNames |-> ZeroOf(FieldOf(n).Kind)]

(***************************************************************************)
(* The generic pass (exifData_parser.go).                                  *)
(***************************************************************************)
\* tags.Parse(field.Tag) filtered to the key "exif": the values of the
\* field's exif tags; a field without the tag has none.
ParseExifTags(field) == IF field.Exif = "" THEN <<>> ELSE <<field.Exif>>

\* getExifTags: the cached tags of the field, or the parsed ones, which are
\* then cached under the field's name.
getExifTags(cache, field) ==
    IF field.Name \in DOMAIN cache
    THEN [tags |-> cache[field.Name], cache |-> cache]
    ELSE [tags  |-> ParseExifTags(field),
          cache |-> [n \in DOMAIN cache \cup {field.Name} |->
                        IF n = field.Name THEN ParseExifTags(field)
                        ELSE cache[n]]]

RECURSIVE lastValue(_, _, _)
\* A lookup in which the last name with a value wins, not the first.
lastValue(metadata, names, k) ==
    IF k > Len(names) THEN [value |-> "", ok |-> FALSE]
    ELSE IF lastValue(metadata, names, k + 1).ok
    THEN lastValue(metadata, names, k + 1)
    ELSE IF names[k] \in DOMAIN metadata /\ metadata[names[k]] # ""
    THEN [value |-> metadata[names[k]], ok |-> TRUE]
    ELSE [value |-> "", ok |-> FALSE]

RECURSIVE firstValue(_, _, _)
\* The inner loop of getValueFromMetadata over the names of one tag.
firstValue(metadata, names, k) ==
    IF k > Len(names) THEN [value |-> "", ok |-> FALSE]
    ELSE IF names[k] \in DOMAIN metadata /\ metadata[names[k]] # ""
    THEN [value |-> metadata[names[k]], ok |-> TRUE]
    ELSE firstValue(metadata, names, k + 1)

RECURSIVE getValueFrom(_, _, _)
getValueFrom(metadata, fieldTags, k) ==
    IF k > Len(fieldTags) THEN [value |-> "", ok |-> FALSE]
    ELSE IF firstValue(metadata, Split(fieldTags[k], ","), 1).ok
    THEN firstValue(metadata, Split(fieldTags[k], ","), 1)
    ELSE getValueFrom(metadata, fieldTags, k + 1)

\* getValueFromMetadata: the first non-empty value among the names of the
\* field's tags, in their order.
getValueFromMetadata(metadata, fieldTags) == getValueFrom(metadata, fieldTags, 1)

\* A field loop that skips no field.
isSpecialFieldNever(fieldName) == FALSE

\* isSpecialField
isSpecialField(fieldName) == HasPrefix(fieldName, "GPS")

\* setFieldValue: the field's new value by its kind, or an error, which
\* leaves the field as it is.
setFieldValue(kind, old, value, localZone) ==
    CASE kind = "string" -> [v |-> value, err |-> FALSE]
      [] kind = "int" ->
           IF ParseInt(value).ok
           THEN [v |-> ParseInt(value).v, err |-> FALSE]
           ELSE [v |-> old, err |-> TRUE]
      [] kind = "float64" ->
           IF ParseFloat(value).ok
           THEN [v |-> ParseFloat(value).v, err |-> FALSE]
           ELSE [v |-> old, err |-> TRUE]
      [] kind = "Time" ->
           LET Set(r) == IF r.ok THEN [v |-> r.t, err |-> FALSE]
                         ELSE [v |-> old, err |-> TRUE]
           IN  Set(parseTime(value, localZone))
      [] kind = "Rational" ->
           IF NewRational(value).ok
           THEN [v |-> NewRational(value).v, err |-> FALSE]
           ELSE [v |-> old, err |-> TRUE]
      [] OTHER -> [v |-> old, err |-> FALSE]

\* One round of the field loop of parseWithReflection on a field that holds
\* old: the value the field has after it, and whether the round logged a
\* warning (err).
parseField(field, old, cache, metadata, localZone) ==
    LET Found(tags, found) ==
            IF Len(tags) = 0 \/ ~found.ok THEN [v |-> old, err |-> FALSE]
            ELSE setFieldValue(field.Kind, old, found.value, localZone)
        Tagged(tags) == Found(tags, getValueFromMetadata(metadata, tags))
    IN  IF isSpecialField(field.Name) THEN [v |-> old, err |-> FALSE]
        ELSE Tagged(getExifTags(cache, field).tags)

\* A field loop that gives up the whole record at the first value that does
\* not coerce.
parseFieldsAbort(img, cache, metadata, localZone) ==
    [img   |-> IF \E n \in FieldNames :
                      parseField(FieldOf(n), img[n], cache, metadata, localZone).err
               THEN ImageDataZero
               ELSE [n \in FieldNames |->
                        parseField(FieldOf(n), img[n], cache, metadata,
                                   localZone).v],
     cache |-> cache]

\* The field loop of parseWithReflection on the record img: a round reads
\* and writes its own field and its own cache entry only, so the loop is its
\* rounds side by side.  The record and the tag cache after the loop.
parseFields(img, cache, metadata, localZone) ==
    [img   |-> [n \in FieldNames |->
                   parseField(FieldOf(n), img[n], cache, metadata, localZone).v],
     cache |-> [n \in DOMAIN cache \cup {m \in FieldNames : ~isSpecialField(m)}
                   |-> getExifTags(cache, FieldOf(n)).tags]]

(***************************************************************************)
(* buildMetadataMap.                                                       *)
(***************************************************************************)
\* The byte 0x00 is written "$".
NUL == "$"

\* exif.ThumbnailFqIfdPath
ThumbnailFqIfdPath == "IFD1"

RECURSIVE buildMetadataFromRaw(_, _, _)
\* A loop that stores the whole formatted value of an entry.
buildMetadataFromRaw(entries, k, metadata) ==
    IF k > Len(entries) THEN metadata
    ELSE LET entry == entries[k]
             s     == Split(entry.FormattedFirst, NUL)
         IN  IF entry.TagName = "" \/ Len(s) = 0
             THEN buildMetadataFromRaw(entries, k + 1, metadata)
             ELSE IF entry.IfdPath = ThumbnailFqIfdPath
             THEN buildMetadataFromRaw(entries, k + 1, metadata)
             ELSE IF Len(s) > 0 /\ s[1] # ""
             THEN buildMetadataFromRaw(entries, k + 1,
                      [n \in DOMAIN metadata \cup {entry.TagName} |->
                          IF n = entry.TagName THEN entry.FormattedFirst
                          ELSE metadata[n]])
             ELSE buildMetadataFromRaw(entries, k + 1, metadata)

RECURSIVE buildMetadataFromAll(_, _, _)
\* A loop that does not pass over the entries of the thumbnail directory.
buildMetadataFromAll(entries, k, metadata) ==
    IF k > Len(entries) THEN metadata
    ELSE LET entry == entries[k]
             s     == Split(entry.FormattedFirst, NUL)
         IN  IF entry.TagName = "" \/ Len(s) = 0
             THEN buildMetadataFromAll(entries, k + 1, metadata)
             ELSE IF Len(s) > 0 /\ s[1] # ""
             THEN buildMetadataFromAll(entries, k + 1,
                      [n \in DOMAIN metadata \cup {entry.TagName} |->
                          IF n = entry.TagName THEN s[1] ELSE metadata[n]])
             ELSE buildMetadataFromAll(entries, k + 1, metadata)

RECURSIVE buildMetadataFrom(_, _, _)
buildMetadataFrom(entries, k, metadata) ==
    IF k > Len(entries) THEN metadata
    ELSE LET entry == entries[k]
             s     == Split(entry.FormattedFirst, NUL)
         IN  IF entry.TagName = "" \/ Len(s) = 0
             THEN buildMetadataFrom(entries, k + 1, metadata)
             ELSE IF entry.IfdPath = ThumbnailFqIfdPath
             THEN buildMetadataFrom(entries, k + 1, metadata)
             ELSE IF Len(s) > 0 /\ s[1] # ""
             THEN buildMetadataFrom(entries, k + 1,
                      [n \in DOMAIN metadata \cup {entry.TagName} |->
                          IF n = entry.TagName THEN s[1] ELSE metadata[n]])
             ELSE buildMetadataFrom(entries, k + 1, metadata)

\* make(map[string]string)
EmptyMap == [n \in {} |-> ""]

\* buildMetadataMap on the entries the flat enumeration returns.
buildMetadataMap(entries) == buildMetadataFrom(entries, 1, EmptyMap)

(***************************************************************************)
(* The GPS pass: extractGPSInfo and what it calls.                         *)
(***************************************************************************)
\* tzFinder.GetTimezoneName(lng, lat) on the places the model visits; ""
\* for a point the finder has no zone for.
GetTimezoneName(lng, lat) ==
    CASE lat = Float(419, 1) /\ lng = Float(125, 1) -> "Europe/Rome"
      [] lat = Float(407, 1) /\ lng = Float(0 - 740, 1) -> "America/New_York"
      [] lat = Float(286, 1) /\ lng = Float(772, 1) -> "Asia/Kolkata"
      [] lat = Float(476, 1) /\ lng = Float(0 - 527, 1) -> "America/St_Johns"
      [] lat = Float(317, 1) /\ lng = Float(0 - 1065, 1) -> "America/Ciudad_Juarez"
      [] OTHER -> ""

RECURSIVE Itoa(_)
\* The decimal digits of n >= 0.
Itoa(n) ==
    IF n < 10 THEN Digits[n + 1] ELSE Itoa(n \div 10) \o Digits[(n % 10) + 1]

\* fmt.Sprintf("%02d", n) for n >= 0.
Pad2(n) == IF n < 10 THEN "0" \o Itoa(n) ELSE Itoa(n)

\* A format that writes "+" for every offset.
FormatOffsetPlus(offset) ==
    LET abs     == IF offset < 0 THEN 0 - offset ELSE offset
        hours   == abs \div 3600
        minutes == (abs % 3600) \div 60
    IN  "+" \o Pad2(hours) \o Pad2(minutes)

\* fmt.Sprintf("%s%02d%02d", sign, hours, minutes) of adjustTimeWithTimezone
\* for a zone offset in seconds.
FormatOffset(offset) ==
    LET sign    == IF offset < 0 THEN "-" ELSE "+"
        abs     == IF offset < 0 THEN 0 - offset ELSE offset
        hours   == abs \div 3600
        minutes == (abs % 3600) \div 60
    IN  sign \o Pad2(hours) \o Pad2(minutes)

\* A block that converts every time into loc, whatever its location.
adjustTimeConvert(t, loc, localZone) == IF IsZero(t) THEN t ELSE In(t, loc)

\* One of the three blocks of adjustTimeWithTimezone: a time in time.UTC
\* keeps its wall clock and is read as local time of loc, any other time is
\* converted into loc; a zero time stays.
adjustTime(t, loc, localZone) ==
    IF IsZero(t) THEN t
    ELSE IF t.loc # UTC THEN In(t, loc)
    ELSE Date(Clock(t, localZone), loc, localZone)

\* An adjustment that flags the offset before it knows the zone loads.
adjustTimeWithTimezoneEager(img, now, localZone) ==
    LET In0(l) ==
            IF ~l.ok THEN [img EXCEPT !.HasTimeOffset = TRUE]
            ELSE [img EXCEPT
                    !.TimeOffset =
                        FormatOffset(Lookup(l.loc, now, localZone).offset),
                    !.HasTimeOffset = TRUE,
                    !.DateTimeOriginal = adjustTime(@, l.loc, localZone),
                    !.DateTimeDigitized = adjustTime(@, l.loc, localZone),
                    !.DateTime = adjustTime(@, l.loc, localZone)]
    IN  IF img.GPSTimeZone = "" THEN img
        ELSE In0(LoadLocation(img.GPSTimeZone))

\* An adjustment that records the offset of UTC for a zone that does not
\* load.
adjustTimeWithTimezoneUTC(img, now, localZone) ==
    LET In0(l) ==
            IF ~l.ok
            THEN [img EXCEPT !.TimeOffset = "+0000", !.HasTimeOffset = TRUE]
            ELSE [img EXCEPT
                    !.TimeOffset =
                        FormatOffset(Lookup(l.loc, now, localZone).offset),
                    !.HasTimeOffset = TRUE,
                    !.DateTimeOriginal = adjustTime(@, l.loc, localZone),
                    !.DateTimeDigitized = adjustTime(@, l.loc, localZone),
                    !.DateTime = adjustTime(@, l.loc, localZone)]
    IN  IF img.GPSTimeZone = "" THEN img
        ELSE In0(LoadLocation(img.GPSTimeZone))

\* adjustTimeWithTimezone, called at the instant now.
adjustTimeWithTimezone(img, now, localZone) ==
    LET In0(l) ==
            IF ~l.ok THEN img
            ELSE [img EXCEPT
                    !.TimeOffset =
                        FormatOffset(Lookup(l.loc, now, localZone).offset),
                    !.HasTimeOffset = TRUE,
                    !.DateTimeOriginal = adjustTime(@, l.loc, localZone),
                    !.DateTimeDigitized = adjustTime(@, l.loc, localZone),
                    !.DateTime = adjustTime(@, l.loc, localZone)]
    IN  IF img.GPSTimeZone = "" THEN img
        ELSE In0(LoadLocation(img.GPSTimeZone))

\* A coordinate step that stores the coordinates before it validates them.
processGPSCoordinatesLate(img, gpsInfo, tzFinder, now, localZone) ==
    LET set == [img EXCEPT !.GPSLatitude = gpsInfo.Latitude,
                           !.GPSLongitude = gpsInfo.Longitude]
        name == GetTimezoneName(set.GPSLongitude, set.GPSLatitude)
    IN  IF IsNaN(gpsInfo.Latitude) \/ IsNaN(gpsInfo.Longitude)
        THEN [img |-> set, err |-> TRUE, lookups |-> 0]
        ELSE IF ~tzFinder THEN [img |-> set, err |-> FALSE, lookups |-> 0]
        ELSE IF name = "" THEN [img |-> set, err |-> FALSE, lookups |-> 1]
        ELSE [img |-> adjustTimeWithTimezone([set EXCEPT !.GPSTimeZone = name],
                                             now, localZone),
              err |-> FALSE, lookups |-> 1]

\* processGPSCoordinates: the record, whether it failed, and the number of
\* lookups made in the timezone finder.
processGPSCoordinates(img, gpsInfo, tzFinder, now, localZone) ==
    LET set  == [img EXCEPT !.GPSLatitude = gpsInfo.Latitude,
                            !.GPSLongitude = gpsInfo.Longitude]
        name == GetTimezoneName(set.GPSLongitude, set.GPSLatitude)
    IN  IF IsNaN(gpsInfo.Latitude) \/ IsNaN(gpsInfo.Longitude)
        THEN [img |-> img, err |-> TRUE, lookups |-> 0]
        ELSE IF ~tzFinder THEN [img |-> set, err |-> FALSE, lookups |-> 0]
        ELSE IF name = "" THEN [img |-> set, err |-> FALSE, lookups |-> 1]
        ELSE [img |-> adjustTimeWithTimezone([set EXCEPT !.GPSTimeZone = name],
                                             now, localZone),
              err |-> FALSE, lookups |-> 1]

\* A processLocalTime that reads the wall clock of the GPS timestamp as a
\* wall clock of the zone.
processLocalTimeRelabel(img) ==
    LET In0(l) ==
            IF ~l.ok THEN img
            ELSE [img EXCEPT !.GPSTimestampLocal =
                     Date(Clock(img.GPSTimestamp, "Etc/UTC"), l.loc, "Etc/UTC")]
    IN  IF img.GPSTimeZone = "" \/ IsZero(img.GPSTimestamp) THEN img
        ELSE In0(LoadLocation(img.GPSTimeZone))

\* processLocalTime
processLocalTime(img) ==
    LET In0(l) ==
            IF ~l.ok THEN img
            ELSE [img EXCEPT !.GPSTimestampLocal = In(img.GPSTimestamp, l.loc)]
    IN  IF img.GPSTimeZone = "" \/ IsZero(img.GPSTimestamp) THEN img
        ELSE In0(LoadLocation(img.GPSTimeZone))

\* The string fields processAdditionalGPSMetadata copies, by their key.
GPSTextKeys == <<"GPSProcessingMethod", "GPSStatus", "GPSSatellites">>

\* The float fields processAdditionalGPSMetadata parses, by their key.
GPSFloatKeys ==
    <<"GPSHPositioningError", "GPSSpeed", "GPSTrack", "GPSImgDirection",
      "GPSDestLatitude", "GPSDestLongitude", "GPSDestBearing",
      "GPSDestDistance">>

\* processAdditionalGPSMetadata: every key is looked up by its own name; a
\* float that does not parse is stored as the 0 ParseFloat returns with it.
processAdditionalGPSMetadata(img, metadata) ==
    [n \in DOMAIN img |->
        IF n \in DOMAIN metadata /\ \E k \in 1..Len(GPSTextKeys) : GPSTextKeys[k] = n
        THEN metadata[n]
        ELSE IF n \in DOMAIN metadata
                /\ \E k \in 1..Len(GPSFloatKeys) : GPSFloatKeys[k] = n
        THEN ParseFloat(metadata[n]).v
        ELSE img[n]]

\* A GPS pass that reads the auxiliary GPS keys of the map also when the
\* directory index has no GPS directory.
extractGPSInfoAux(img, metadata, ifdIndex, gps, tzFinder, now, localZone) ==
    [img     |-> processAdditionalGPSMetadata(img, metadata),
     err     |-> "no GPS info found",
     lookups |-> 0]

\* extractGPSInfo on the directory index, gps being what ifd.GpsInfo() gives
\* for its GPS directory: the record, the error it returns ("" for none) and
\* the lookups made in the timezone finder.
extractGPSInfo(img, metadata, ifdIndex, gps, tzFinder, now, localZone) ==
    LET gpsInfo == gps.info
        Stamped(alt) ==
            IF ~IsZero(gpsInfo.Timestamp)
            THEN processLocalTime([alt EXCEPT !.GPSTimestamp = gpsInfo.Timestamp])
            ELSE alt
        Raised(at) ==
            Stamped(IF gpsInfo.Altitude # 0
                    THEN [at EXCEPT !.GPSAltitude = Float(gpsInfo.Altitude, 0)]
                    ELSE at)
        Located(c) ==
            IF c.err
            THEN [img |-> c.img, err |-> "invalid GPS coordinates", lookups |-> 0]
            ELSE [img |-> processAdditionalGPSMetadata(Raised(c.img), metadata),
                  err |-> "", lookups |-> c.lookups]
    IN  IF ~ifdIndex.hasGps
        THEN [img |-> img, err |-> "no GPS info found", lookups |-> 0]
        ELSE IF ~gps.ok
        THEN [img |-> img, err |-> "failed to parse GPS info", lookups |-> 0]
        ELSE Located(processGPSCoordinates(img, gpsInfo, tzFinder, now,
                                           localZone))

(***************************************************************************)
(* The state of one call of ExifDataParser.Parse.                          *)
(***************************************************************************)
VARIABLES
    entries,     \* the directory entries the flat enumeration of exifData gives
    flatErr,     \* whether that enumeration fails
    collectErr,  \* whether exif.Collect fails on exifData
    tzFinder,    \* whether init() got a timezone finder (tzFinder != nil)
    localZone,   \* the zone time.Local stands for on this machine
    tagCache,    \* ExifDataParser.tagCache
    pc,          \* the statement of Parse that runs next
    metadata,    \* the metadata map
    ifdIndex,    \* the directory index exif.Collect gave
    imageData,   \* the record parseWithReflection fills
    generic,     \* the record as the field loop left it
    gps,         \* what ifd.GpsInfo() gave in extractGPSInfo
    now,         \* the instant time.Now() gave in adjustTimeWithTimezone
    gpsErr,      \* the error extractGPSInfo returned (a logged warning)
    tzLookups,   \* the calls of tzFinder.GetTimezoneName made
    ret,         \* what Parse returned: the record and the error
    text,        \* the string a caller hands to NewRational
    rational,    \* what NewRational returned: the Rational and whether err == nil
    formatted,   \* what Rational.String returned
    file,        \* an image file: its extension, its pixel configuration, its EXIF payload
    info,        \* the ImageInfo NewImageInfo returned
    caller,      \* the statement the owner of info runs next
    exifErr,     \* the error ImageInfo.Exif returned
    isPhoto,     \* what info.IsPhoto() returned
    isImage,     \* what info.IsImage() returned
    calls,       \* the position of each concurrent call of Parse in the field loop
    fatal        \* whether the runtime has stopped the program on a concurrent map access

\* The state of a caller of NewRational and Rational.String.
rationalVars == <<text, rational, formatted>>

\* The state of the owner of an ImageInfo.
imageVars == <<file, info, caller, exifErr, isPhoto, isImage>>

\* The state of concurrent calls of Parse on one parser.
raceVars == <<calls, fatal>>

\* The state of the programs that run apart from a call of Parse.
apart == <<rationalVars, imageVars, raceVars>>

vars ==
    <<entries, flatErr, collectErr, tzFinder, localZone, tagCache, pc,
      metadata, ifdIndex, imageData, generic, gps, now, gpsErr, tzLookups,
      ret, apart>>

inputs == <<entries, flatErr, collectErr, tzFinder, localZone>>

\* No caller of NewRational runs.
RationalIdle ==
    /\ text = ""
    /\ rational = [ok |-> FALSE, v |-> RationalZero]
    /\ formatted = ""

\* A file that is no image and has no data.
NoFile ==
    [ext |-> "", config |-> [ok |-> FALSE, Width |-> 0, Height |-> 0],
     exif |-> "ErrNoExif", created |-> TimeZero, written |-> TimeZero]

\* No calls of Parse run concurrently.
RaceIdle ==
    /\ calls = <<>>
    /\ fatal = FALSE

\* new(ImageInfo)
ImageInfoZero == [FileType |-> "", FileExt |-> "", ImageData |-> ImageDataZero]

\* No ImageInfo is in use.
ImageIdle ==
    /\ file = NoFile
    /\ info = ImageInfoZero
    /\ caller = "idle"
    /\ exifErr = ""
    /\ isPhoto = FALSE
    /\ isImage = FALSE

(***************************************************************************)
(* The inputs the model draws from.                                        *)
(***************************************************************************)
Entry(tag, path, value) ==
    [TagName |-> tag, IfdPath |-> path, FormattedFirst |-> value]

\* Directory entries of a photo: aliases of one field, values that do not
\* coerce, a thumbnail entry, GPS keys, and capture times.
EntryPool ==
    { Entry("ISOSpeedRatings", "IFD/Exif", "abc"),
      Entry("ISOSpeedRatings", "IFD/Exif", "100"),
      Entry("ISO", "IFD/Exif", "5"),
      Entry("Make", "IFD", "Canon"),
      Entry("Make", "IFD1", "Thumb"),
      Entry("DateTimeOriginal", "IFD/Exif", "2024:06:01 12:00:00"),
      Entry("DateTimeOriginal", "IFD/Exif", "2024:06:01 12:00:00+02:00"),
      Entry("OffsetTime", "IFD/Exif", "+05:00"),
      Entry("GPSTrack", "IFD/GPSInfo", "1e999"),
      Entry("GPSSpeed", "IFD/GPSInfo", "12.5"),
      Entry("GPSSpeed", "IFD/GPSInfo", "fast"),
      Entry("XResolution", "IFD", "72/1"),
      Entry("SubjectDistance", "IFD/Exif", "1.5x") }

\* Capture times in every notation of timeFormats: without a zone (one that
\* Europe/Rome skips and one it repeats among them), with an offset, with
\* the marker Z, and one that is no time.
TimePool ==
    { Entry("DateTimeOriginal", "IFD/Exif", "2024:06:01 12:00:00"),
      Entry("DateTimeOriginal", "IFD/Exif", "2024:03:31 02:30:00"),
      Entry("DateTimeOriginal", "IFD/Exif", "2024:10:27 02:30:00.25"),
      Entry("DateTimeOriginal", "IFD/Exif", "2024:06:01 12:00:00+0000"),
      Entry("DateTimeOriginal", "IFD/Exif", "2024:06:01 12:00:00-0500"),
      Entry("DateTimeOriginal", "IFD/Exif", "2024:06:01 12:00:00Z"),
      Entry("DateTimeOriginal", "IFD/Exif", "2024:06:01 12:00:00.500Z"),
      Entry("OriginalDateTime", "IFD/Exif", "2024:06:01 12:00:00+02:00"),
      Entry("DateTimeOriginal", "IFD/Exif", "yesterday"),
      Entry("DateTime", "IFD", "2024:03:10 02:30:00"),
      Entry("DateTime", "IFD", "2024:06:01 23:30:00+02:00"),
      Entry("DateTimeDigitized", "IFD/Exif", "2024:06:01 12:00:00"),
      Entry("DateTimeDigitized", "IFD/Exif", "2024:06:01 12:00:00Z") }

\* Entries whose formatted value holds NUL bytes, in the middle, at the end
\* and at the start, entries with an empty value or an empty tag name, and
\* a thumbnail entry.
MapPool ==
    { Entry("Make", "IFD", "Canon"),
      Entry("Make", "IFD", "Nikon$junk"),
      Entry("Make", "IFD", "$hidden"),
      Entry("Make", "IFD", ""),
      Entry("Make", "IFD1", "Thumb$x"),
      Entry("", "IFD", "orphan"),
      Entry("Model", "IFD", "EOS$"),
      Entry("Model", "IFD", "$"),
      Entry("Software", "IFD", "a$b$c") }

RECURSIVE SeqsUpTo(_, _)
\* The sequences over S of length at most n.
SeqsUpTo(S, n) ==
    IF n = 0 THEN {<<>>}
    ELSE SeqsUpTo(S, n - 1)
         \cup {Append(q, x) : q \in {r \in SeqsUpTo(S, n - 1) : Len(r) = n - 1},
                              x \in S}

GpsInfo(lat, lng, alt, ts) ==
    [Latitude |-> lat, Longitude |-> lng, Altitude |-> alt, Timestamp |-> ts]

NoGpsInfo == GpsInfo(FloatZero, FloatZero, 0, TimeZero)

\* A GPS time of day, which the GPS directory gives in UTC.
GpsTime == Time(At(2024, 6, 1, 10, 0), 0, UTC)

\* Latitude and longitude of Rome, New York, New Delhi, St. John's, Ciudad
\* Juarez (a zone the zone database does not hold), a point without a zone,
\* and coordinates that are not numbers.
Places ==
    { <<Float(419, 1), Float(125, 1)>>, <<Float(407, 1), Float(0 - 740, 1)>>,
      <<Float(286, 1), Float(772, 1)>>, <<Float(476, 1), Float(0 - 527, 1)>>,
      <<Float(317, 1), Float(0 - 1065, 1)>>, <<Float(10, 0), Float(20, 0)>>,
      <<FloatNaN, Float(125, 1)>>, <<Float(419, 1), FloatNaN>> }

\* What ifd.GpsInfo() gives: an error, or the GPS info of a place, without
\* or with an altitude and a GPS time.
GpsResults ==
    { [ok |-> FALSE, info |-> NoGpsInfo] }
    \cup { [ok |-> TRUE, info |-> GpsInfo(p[1], p[2], 0, TimeZero)] : p \in Places }
    \cup { [ok |-> TRUE, info |-> GpsInfo(p[1], p[2], 35, GpsTime)] :
              p \in { <<Float(419, 1), Float(125, 1)>>,
                      <<Float(317, 1), Float(0 - 1065, 1)>>,
                      <<FloatNaN, Float(125, 1)>> } }

\* A directory index: whether the root directory has a GPS directory.
Indexes == { [hasGps |-> b] : b \in BOOLEAN }

\* Instants of a winter and of a summer day.
Nows == {At(2026, 1, 15, 12, 0), At(2026, 7, 15, 12, 0)}

\* The zones time.Local stands for on the machines of the model.
LocalZones == {"Etc/UTC", "Europe/Rome"}

\* NewExifDataParser and the arguments of Parse: the parser is new, the
\* payload is any sequence of entries of the pool.  A payload whose
\* enumeration fails has no entries.  What Parse has not yet computed is
\* the zero value of its type.
Start(pool) ==
    /\ flatErr \in BOOLEAN
    /\ entries \in IF flatErr THEN {<<>>} ELSE SeqsUpTo(pool, MaxEntries)
    /\ collectErr \in BOOLEAN
    /\ tzFinder \in BOOLEAN
    /\ localZone \in LocalZones
    /\ tagCache = EmptyMap
    /\ pc = "buildMetadataMap"
    /\ metadata = EmptyMap
    /\ ifdIndex = [hasGps |-> FALSE]
    /\ imageData = ImageDataZero
    /\ generic = ImageDataZero
    /\ gps = [ok |-> FALSE, info |-> NoGpsInfo]
    /\ now = Instant(0, 0)
    /\ gpsErr = ""
    /\ tzLookups = 0
    /\ ret = [data |-> ImageDataZero, err |-> ""]
    /\ RationalIdle
    /\ ImageIdle
    /\ RaceIdle

Init == Start(EntryPool)

InitTime == Start(TimePool)

InitMap == Start(MapPool)

(***************************************************************************)
(* Parse, statement by statement.                                          *)
(***************************************************************************)
\* metadata, err := p.buildMetadataMap(exifData)
BuildMetadataMap ==
    /\ pc = "buildMetadataMap"
    /\ IF flatErr
       THEN /\ ret' = [data |-> ImageDataZero, err |-> "failed to extract EXIF data"]
            /\ pc' = "done"
            /\ UNCHANGED metadata
       ELSE /\ metadata' = buildMetadataMap(entries)
            /\ pc' = "Collect"
            /\ UNCHANGED ret
    /\ UNCHANGED <<apart, inputs, tagCache, ifdIndex, imageData, generic, gps, now,
                   gpsErr, tzLookups>>

\* _, ifdIndex, err = exif.Collect(exifIfdMapping, exifTagIndex, exifData)
Collect ==
    /\ pc = "Collect"
    /\ IF collectErr
       THEN /\ ret' = [data |-> ImageDataZero, err |-> "failed to build IFD index"]
            /\ pc' = "done"
            /\ UNCHANGED ifdIndex
       ELSE /\ ifdIndex' \in Indexes
            /\ pc' = "parseFields"
            /\ UNCHANGED ret
    /\ UNCHANGED <<apart, inputs, tagCache, metadata, imageData, generic, gps, now,
                   gpsErr, tzLookups>>

\* parseWithReflection: imageData := ImageData{} and the loop over its fields
ParseFields ==
    /\ pc = "parseFields"
    /\ LET st == parseFields(ImageDataZero, tagCache, metadata, localZone)
       IN  /\ imageData' = st.img
           /\ generic' = st.img
           /\ tagCache' = st.cache
    /\ pc' = "extractGPSInfo"
    /\ UNCHANGED <<apart, inputs, metadata, ifdIndex, gps, now, gpsErr,
                   tzLookups, ret>>

\* A GPS pass that starts from a new record instead of the one it is given.
ExtractGPSInfoFresh ==
    /\ pc = "extractGPSInfo"
    /\ \E g \in IF ifdIndex.hasGps THEN GpsResults ELSE {gps}, n \in Nows :
          LET x == extractGPSInfo(ImageDataZero, metadata, ifdIndex, g,
                                  tzFinder, n, localZone)
          IN  /\ gps' = g
              /\ now' = n
              /\ imageData' = x.img
              /\ gpsErr' = x.err
              /\ tzLookups' = x.lookups
    /\ pc' = "return"
    /\ UNCHANGED <<apart, inputs, tagCache, metadata, ifdIndex, generic, ret>>

\* parseWithReflection: p.extractGPSInfo(&imageData, metadata, ifdIndex),
\* with what ifd.GpsInfo() and time.Now() give when they are called
ExtractGPSInfo ==
    /\ pc = "extractGPSInfo"
    /\ \E g \in IF ifdIndex.hasGps THEN GpsResults ELSE {gps}, n \in Nows :
          LET x == extractGPSInfo(imageData, metadata, ifdIndex, g, tzFinder,
                                  n, localZone)
          IN  /\ gps' = g
              /\ now' = n
              /\ imageData' = x.img
              /\ gpsErr' = x.err
              /\ tzLookups' = x.lookups
    /\ pc' = "return"
    /\ UNCHANGED <<apart, inputs, tagCache, metadata, ifdIndex, generic, ret>>

\* A return that hands on the error of the GPS pass.
ReturnGpsErr ==
    /\ pc = "return"
    /\ ret' = [data |-> imageData, err |-> gpsErr]
    /\ pc' = "done"
    /\ UNCHANGED <<apart, inputs, tagCache, metadata, ifdIndex, imageData, generic,
                   gps, now, gpsErr, tzLookups>>

\* parseWithReflection: return imageData, nil
Return ==
    /\ pc = "return"
    /\ ret' = [data |-> imageData, err |-> ""]
    /\ pc' = "done"
    /\ UNCHANGED <<apart, inputs, tagCache, metadata, ifdIndex, imageData, generic,
                   gps, now, gpsErr, tzLookups>>

Next == BuildMetadataMap \/ Collect \/ ParseFields \/ ExtractGPSInfo \/ Return

Spec == Init /\ [][Next]_vars

SpecTime == InitTime /\ [][Next]_vars

SpecMap == InitMap /\ [][Next]_vars

(***************************************************************************)
(* A caller of NewRational and Rational.String (exif_data_types.go).       *)
(***************************************************************************)
\* The verb %d of fmt.Sprintf: a minus sign for a negative number, then its
\* decimal digits.
FormatInt(n) == IF n < 0 THEN "-" \o Itoa(0 - n) ELSE Itoa(n)

\* A String that drops the signs.
StringUnsigned(r) ==
    Itoa(IF r.Numerator < 0 THEN 0 - r.Numerator ELSE r.Numerator) \o "/"
    \o Itoa(IF r.Denominator < 0 THEN 0 - r.Denominator ELSE r.Denominator)

\* fmt.Sprintf("%d/%d", r.Numerator, r.Denominator)
String(r) == FormatInt(r.Numerator) \o "/" \o FormatInt(r.Denominator)

\* The variables of a call of Parse and of its parser.
call ==
    <<inputs, tagCache, metadata, ifdIndex, imageData, generic, gps, now,
      gpsErr, tzLookups, ret>>

\* No call of Parse has computed anything.
CallIdle ==
    /\ entries = <<>>
    /\ flatErr = FALSE
    /\ collectErr = FALSE
    /\ tzFinder = TRUE
    /\ localZone = "Etc/UTC"
    /\ metadata = EmptyMap
    /\ ifdIndex = [hasGps |-> FALSE]
    /\ imageData = ImageDataZero
    /\ generic = ImageDataZero
    /\ gps = [ok |-> FALSE, info |-> NoGpsInfo]
    /\ now = Instant(0, 0)
    /\ gpsErr = ""
    /\ tzLookups = 0
    /\ ret = [data |-> ImageDataZero, err |-> ""]

\* No call of Parse runs: the parser is new.
ParseIdle == CallIdle /\ tagCache = EmptyMap

\* Spellings of a numerator or a denominator: plain, negative, with a plus
\* sign, with leading zeros, a negative zero, and spellings of no integer.
PartPool ==
    {"0", "1", "7", "10", "12", "300", "-3", "-12", "+4", "007", "00", "-0",
     "-05", "", "a", "1.5", " 2", "-"}

\* The strings handed to NewRational: two parts around one slash, and
\* strings with no slash or with two.
TextPool ==
    {n \o "/" \o d : n \in PartPool, d \in PartPool}
    \cup {"", "12", "1/2/3", "//"}

InitRational ==
    /\ ParseIdle
    /\ ImageIdle
    /\ RaceIdle
    /\ pc = "NewRational"
    /\ text \in TextPool
    /\ rational = [ok |-> FALSE, v |-> RationalZero]
    /\ formatted = ""

\* r, err := NewRational(text)
CallNewRational ==
    /\ pc = "NewRational"
    /\ rational' = NewRational(text)
    /\ pc' = IF rational'.ok THEN "String" ELSE "done"
    /\ UNCHANGED <<call, raceVars, imageVars, text, formatted>>

\* r.String()
CallString ==
    /\ pc = "String"
    /\ formatted' = String(rational.v)
    /\ pc' = "done"
    /\ UNCHANGED <<call, raceVars, imageVars, text, rational>>

NextRational == CallNewRational \/ CallString

SpecRational == InitRational /\ [][NextRational]_vars

(***************************************************************************)
(* ImageInfo: NewImageInfo, Exif, IsPhoto and IsImage.                     *)
(***************************************************************************)
\* The supported file types (file_types.go).
ImageFileTypes == <<"bmp", "gif", "heic", "heif", "jpg", "png", "tiff", "webp">>

\* The file extensions of each file type.
ImageFileTypesExtensions ==
    [bmp  |-> <<".bmp", ".dib">>,
     gif  |-> <<".gif">>,
     heic |-> <<".heic">>,
     heif |-> <<".heif">>,
     jpg  |-> <<".jpg", ".jpeg", ".jpe", ".jif", ".jfif", ".jfi">>,
     png  |-> <<".png">>,
     tiff |-> <<".tiff", ".tif">>,
     webp |-> <<".webp">>]

\* Whether the extension is one of the file type.
HasExtension(t, ext) ==
    \E k \in 1..Len(ImageFileTypesExtensions[t]) :
       ImageFileTypesExtensions[t][k] = ext

\* ImageFileTypesExtensions.GetFileTypeAndExtension on a file name with the
\* extension ext: the type that lists it, no type when none does.
GetFileTypeAndExtension(ext) ==
    IF \E t \in DOMAIN ImageFileTypesExtensions : HasExtension(t, ext)
    THEN [FileType |-> CHOOSE t \in DOMAIN ImageFileTypesExtensions :
                          HasExtension(t, ext),
          FileExt  |-> ext]
    ELSE [FileType |-> "", FileExt |-> ""]

\* IsPhoto(fileType)
IsPhoto(fileType) == fileType \in {"jpg", "heic", "heif"}

\* An IsImage that holds for every supported file type.
IsImageOfAll(fileType) ==
    \E k \in 1..Len(ImageFileTypes) : ImageFileTypes[k] = fileType

\* IsImage(fileType)
IsImage(fileType) == fileType \in {"bmp", "gif", "png", "tiff", "webp"}

\* extractData: the dimensions image.DecodeConfig found and the date of the
\* file, nothing when the pixel configuration does not decode.
extractData(i, f) ==
    IF ~f.config.ok THEN i
    ELSE [i EXCEPT !.ImageData =
             [@ EXCEPT !.ImageWidth = f.config.Width,
                       !.ImageHeight = f.config.Height,
                       !.DateTime = IF IsZero(f.created) THEN f.written
                                    ELSE f.created]]

\* exif.ErrNoExif
ErrNoExif == "no exif data"

\* ExifParser.Parse(path, fileType): the error it returns, "" with a payload.
ExifParserParse(f, fileType) ==
    IF \E k \in 1..Len(ImageFileTypes) : ImageFileTypes[k] = fileType
    THEN f.exif
    ELSE "unsupported file type"

\* Extensions of file names: one of each file type, a second one of jpg,
\* and one of no image.
ExtPool ==
    {".bmp", ".gif", ".heic", ".heif", ".jpg", ".jpeg", ".png", ".tiff",
     ".webp", ".txt"}

\* Image files: a pixel configuration that decodes or not, with a creation
\* time or without, with no EXIF data, with EXIF data that cannot be read,
\* or with a payload.
Files ==
    { [ext |-> e, config |-> c, exif |-> x, created |-> t,
       written |-> Time(At(2023, 5, 2, 9, 30), 0, Local)] :
         e \in ExtPool,
         c \in { [ok |-> FALSE, Width |-> 0, Height |-> 0],
                 [ok |-> TRUE, Width |-> 640, Height |-> 480] },
         x \in {ErrNoExif, "corrupt exif data", ""},
         t \in {TimeZero, Time(At(2023, 5, 1, 8, 0), 0, Local)} }

\* Entries of a payload with and without the dimensions of the image.
ImagePool ==
    { Entry("Make", "IFD", "Canon"),
      Entry("PixelXDimension", "IFD/Exif", "4000"),
      Entry("ImageHeight", "IFD", "3000") }

\* Before NewImageInfo(path): the file, and the payload the EXIF parsers
\* will find in it.
InitImage ==
    /\ file \in Files
    /\ flatErr \in IF file.exif = "" THEN BOOLEAN ELSE {FALSE}
    /\ entries \in IF file.exif = "" /\ ~flatErr
                   THEN SeqsUpTo(ImagePool, MaxEntries) ELSE {<<>>}
    /\ collectErr \in IF file.exif = "" /\ ~flatErr THEN BOOLEAN ELSE {FALSE}
    /\ tzFinder = TRUE
    /\ localZone = "Etc/UTC"
    /\ tagCache = EmptyMap
    /\ pc = "idle"
    /\ metadata = EmptyMap
    /\ ifdIndex = [hasGps |-> FALSE]
    /\ imageData = ImageDataZero
    /\ generic = ImageDataZero
    /\ gps = [ok |-> FALSE, info |-> NoGpsInfo]
    /\ now = Instant(0, 0)
    /\ gpsErr = ""
    /\ tzLookups = 0
    /\ ret = [data |-> ImageDataZero, err |-> ""]
    /\ RationalIdle
    /\ RaceIdle
    /\ info = ImageInfoZero
    /\ caller = "NewImageInfo"
    /\ exifErr = ""
    /\ isPhoto = FALSE
    /\ isImage = FALSE

\* imgInfo, err := NewImageInfo(path)
NewImageInfo ==
    /\ caller = "NewImageInfo"
    /\ LET t == GetFileTypeAndExtension(file.ext)
       IN  info' = extractData([ImageInfoZero EXCEPT !.FileType = t.FileType,
                                                     !.FileExt = t.FileExt],
                               file)
    /\ caller' = "Exif"
    /\ UNCHANGED <<call, raceVars, pc, rationalVars, file, exifErr, isPhoto,
                   isImage>>

\* Exif: rawExif, err := exifParser.Parse(...) and the two returns on err;
\* without an error a new ExifDataParser parses the payload.
ExifParse ==
    /\ caller = "Exif"
    /\ LET err == ExifParserParse(file, info.FileType)
       IN  IF err = ErrNoExif
           THEN exifErr' = "" /\ caller' = "IsPhoto" /\ UNCHANGED pc
           ELSE IF err # ""
           THEN exifErr' = err /\ caller' = "IsPhoto" /\ UNCHANGED pc
           ELSE exifErr' = "" /\ caller' = "Parse" /\ pc' = "buildMetadataMap"
    /\ UNCHANGED <<call, raceVars, rationalVars, file, info, isPhoto,
                   isImage>>

\* Exif after exifDataParser.Parse(rawExif): return i, err on an error,
\* else i.ImageData = imageData and return i, nil
ExifAssign ==
    /\ caller = "Parse"
    /\ pc = "done"
    /\ IF ret.err # ""
       THEN exifErr' = ret.err /\ UNCHANGED info
       ELSE exifErr' = "" /\ info' = [info EXCEPT !.ImageData = ret.data]
    /\ caller' = "IsPhoto"
    /\ UNCHANGED <<call, raceVars, pc, rationalVars, file, isPhoto, isImage>>

\* i.IsPhoto()
CallIsPhoto ==
    /\ caller = "IsPhoto"
    /\ isPhoto' = IsPhoto(info.FileType)
    /\ caller' = "IsImage"
    /\ UNCHANGED <<call, raceVars, pc, rationalVars, file, info, exifErr,
                   isImage>>

\* i.IsImage()
CallIsImage ==
    /\ caller = "IsImage"
    /\ isImage' = IsImage(info.FileType)
    /\ caller' = "done"
    /\ UNCHANGED <<call, raceVars, pc, rationalVars, file, info, exifErr,
                   isPhoto>>

NextImage ==
    \/ NewImageInfo \/ ExifParse
    \/ BuildMetadataMap \/ Collect \/ ParseFields \/ ExtractGPSInfo \/ Return
    \/ ExifAssign \/ CallIsPhoto \/ CallIsImage

SpecImage == InitImage /\ [][NextImage]_vars

(***************************************************************************)
(* Two calls of Parse that run concurrently on one ExifDataParser: their   *)
(* accesses to tagCache in getExifTags.                                    *)
(***************************************************************************)
\* The goroutines that call Parse.
Goroutines == {1, 2}

\* The cache after a call of Parse has returned: every field the loop does
\* not skip has its tags cached.
WarmCache ==
    [n \in {m \in FieldNames : ~isSpecialField(m)} |-> ParseExifTags(FieldOf(n))]

\* The field the call of goroutine g has reached in the loop.
FieldAt(g) == Fields[calls[g].field]

\* The next step of goroutine g reads tagCache: the lookup of getExifTags.
Reading(g) ==
    /\ calls[g].at = "lookup"
    /\ calls[g].field <= Len(Fields)
    /\ ~isSpecialField(FieldAt(g).Name)

\* The next step of goroutine g writes tagCache: the store of getExifTags.
Writing(g) == calls[g].at = "store"

\* Another goroutine is about to access tagCache, and it or g writes.
Racing(g, writes) ==
    \E h \in Goroutines \ {g} : Writing(h) \/ (writes /\ Reading(h))

\* What the runtime can do with a map access: detect that it is concurrent
\* with a write and stop the program, or let it pass.
Outcomes(g, writes) == IF Racing(g, writes) THEN BOOLEAN ELSE {FALSE}

InitRace ==
    /\ CallIdle
    /\ tagCache \in {EmptyMap, WarmCache}
    /\ pc = "parseFields"
    /\ RationalIdle
    /\ ImageIdle
    /\ calls = [g \in Goroutines |-> [field |-> 1, at |-> "lookup"]]
    /\ fatal = FALSE

\* The loop of parseWithReflection up to the lookup of getExifTags:
\* a field isSpecialField holds for is skipped; for another one
\* p.tagCache[field.Name] is read, and a cached field is done.
LookupTags(g) ==
    /\ ~fatal
    /\ calls[g].at = "lookup"
    /\ calls[g].field <= Len(Fields)
    /\ IF isSpecialField(FieldAt(g).Name)
       THEN /\ calls' = [calls EXCEPT ![g].field = @ + 1]
            /\ UNCHANGED fatal
       ELSE \E stopped \in Outcomes(g, FALSE) :
               /\ fatal' = stopped
               /\ calls' = IF stopped THEN calls
                           ELSE IF FieldAt(g).Name \in DOMAIN tagCache
                           THEN [calls EXCEPT ![g].field = @ + 1]
                           ELSE [calls EXCEPT ![g].at = "store"]
    /\ UNCHANGED <<call, pc, rationalVars, imageVars>>

\* getExifTags after a miss: tags.Parse, then p.tagCache[field.Name] =
\* exifTags; the loop goes on with the next field.
StoreTags(g) ==
    /\ ~fatal
    /\ calls[g].at = "store"
    /\ \E stopped \in Outcomes(g, TRUE) :
          /\ fatal' = stopped
          /\ IF stopped
             THEN UNCHANGED <<calls, tagCache>>
             ELSE /\ tagCache' = getExifTags(tagCache, FieldAt(g)).cache
                  /\ calls' = [calls EXCEPT ![g].field = @ + 1,
                                            ![g].at = "lookup"]
    /\ UNCHANGED <<inputs, metadata, ifdIndex, imageData, generic, gps, now,
                   gpsErr, tzLookups, ret, pc, rationalVars, imageVars>>

NextRace == \E g \in Goroutines : LookupTags(g) \/ StoreTags(g)

SpecRace == InitRace /\ [][NextRace]_vars

(***************************************************************************)
(* Properties of the generic pass.                                         *)
(***************************************************************************)
\* The names each field is looked up under, in their declared order.
AliasTable == [n \in FieldNames |-> Split(FieldOf(n).Exif, ",")]

Aliases(n) == AliasTable[n]

\* The positions in the alias list of n whose name the map holds a value for.
Present(n, m) ==
    {k \in 1..Len(Aliases(n)) :
        Aliases(n)[k] \in DOMAIN m /\ m[Aliases(n)[k]] # ""}

\* The first alias of n the map m holds a value for.
Selected(n, m) ==
    Aliases(n)[CHOOSE k \in Present(n, m) : \A j \in Present(n, m) : k <= j]

\* What the value does to a field of the kind of n that holds its zero value.
Coerced(n, value) ==
    setFieldValue(FieldOf(n).Kind, ZeroOf(FieldOf(n).Kind), value, localZone)

\* Parse went through both passes and returned.
Returned == pc = "done" /\ ~flatErr /\ ~collectErr

\* C1: after the generic pass every non-GPS field holds the coerced value of
\* the first alias, in declared order, that the map holds a non-empty value
\* for (its zero value when that value does not coerce: no later alias is
\* tried), and its zero value when the map holds none of its aliases; Parse
\* then returns without an error.
FirstAliasWins ==
    /\ pc = "extractGPSInfo" =>
          \A n \in FieldNames :
              ~HasPrefix(n, "GPS") =>
                  IF Present(n, metadata) = {}
                  THEN imageData[n] = ZeroOf(FieldOf(n).Kind)
                  ELSE imageData[n] =
                          Coerced(n, metadata[Selected(n, metadata)]).v
    /\ Returned => ret.err = ""

\* A map holding only the second alias ISO = "5" of ISOSpeed decoded to 5.
AliasFallbackSeen ==
    /\ pc = "extractGPSInfo"
    /\ DOMAIN metadata = {"ISO"}
    /\ metadata["ISO"] = "5"
    /\ Aliases("ISOSpeed") = <<"ISOSpeedRatings", "ISO">>
    /\ imageData.ISOSpeed = 5

\* The non-GPS fields whose selected value does not coerce.
FailedFields(m) ==
    {n \in FieldNames :
        /\ ~HasPrefix(n, "GPS")
        /\ Present(n, m) # {}
        /\ Coerced(n, m[Selected(n, m)]).err}

\* The map m without the key.
Without(m, key) == [x \in DOMAIN m \ {key} |-> m[x]]

\* The record both passes give for the map m on this payload and machine.
Decoded(m) ==
    extractGPSInfo(parseFields(ImageDataZero, EmptyMap, m, localZone).img,
                   m, ifdIndex, gps, tzFinder, now, localZone).img

\* C2: when the value selected for a field does not coerce, Parse returns
\* without an error a record in which that field is zero and every other
\* field has the value it has when the map lacks that entry.
CoercionFailureIsLocal ==
    Returned =>
        \A n \in FailedFields(metadata) :
            LET SameElsewhere(d) == \A o \in FieldNames \ {n} : ret.data[o] = d[o]
            IN  /\ ret.err = ""
                /\ ret.data[n] = ZeroOf(FieldOf(n).Kind)
                /\ SameElsewhere(
                       Decoded(Without(metadata, Selected(n, metadata))))

\* ISOSpeedRatings = "abc" left ISOSpeed zero next to a CameraMake that was decoded.
CoercionFailureSeen ==
    /\ Returned
    /\ DOMAIN metadata = {"ISOSpeedRatings", "Make"}
    /\ metadata["ISOSpeedRatings"] = "abc"
    /\ FailedFields(metadata) = {"ISOSpeed"}
    /\ ret.data.ISOSpeed = 0
    /\ ret.data.CameraMake = "Canon"
    /\ ret.err = ""

\* C3: Parse returns an error exactly when the metadata map or the directory
\* index cannot be built, and then with the all-zero record; a failure of
\* the GPS pass or of a coercion is no error of Parse.
ErrorOnlyFromMapOrIndex ==
    pc = "done" =>
        /\ ret.err # "" <=> (flatErr \/ collectErr)
        /\ ret.err # "" => ret.data = ImageDataZero
        /\ flatErr => ret.err = "failed to extract EXIF data"
        /\ ~flatErr /\ collectErr => ret.err = "failed to build IFD index"

\* Parse returned without an error although a value did not coerce and the
\* GPS pass failed on its coordinates.
PartialSuccessSeen ==
    /\ pc = "done"
    /\ ret.err = ""
    /\ gpsErr = "invalid GPS coordinates"
    /\ FailedFields(metadata) # {}
    /\ ret.data # ImageDataZero

\* C4: the field loop leaves every field whose name starts with "GPS" at its
\* zero value, whatever the map holds under the field's aliases.
GpsFieldsNotInLoop ==
    pc = "extractGPSInfo" =>
        \A n \in FieldNames :
            HasPrefix(n, "GPS") => imageData[n] = ZeroOf(FieldOf(n).Kind)

\* The map held GPSSpeed = "12.5", a value that coerces, and the field loop
\* left the field GPSSpeed at zero.
GpsKeyIgnoredSeen ==
    /\ pc = "extractGPSInfo"
    /\ "GPSSpeed" \in DOMAIN metadata
    /\ metadata["GPSSpeed"] = "12.5"
    /\ Aliases("GPSSpeed") = <<"GPSSpeed">>
    /\ imageData.GPSSpeed = FloatZero

(***************************************************************************)
(* Properties of the GPS pass.                                             *)
(***************************************************************************)
\* The record the two passes give in the other order: the GPS pass on a new
\* record, then the field loop on what it leaves.
Reversed ==
    parseFields(extractGPSInfo(ImageDataZero, metadata, ifdIndex, gps,
                               tzFinder, now, localZone).img,
                EmptyMap, metadata, localZone).img

\* The fields both passes write.
SharedFields ==
    {"TimeOffset", "DateTime", "DateTimeOriginal", "DateTimeDigitized"}

\* The fields the GPS pass alone writes.
GpsOnlyFields == {n \in FieldNames : HasPrefix(n, "GPS")} \cup {"HasTimeOffset"}

\* C5 as the spec states it: the passes write disjoint fields, so the record
\* is the same in either order of the passes.
PassesCommute == pc = "return" => imageData = Reversed

\* C5, amended: the GPS pass changes only GPS fields, HasTimeOffset and the
\* four fields it shares with the field loop (TimeOffset, DateTime,
\* DateTimeOriginal, DateTimeDigitized); the two orders of the passes agree
\* on every field but these four.
PassesCommuteOffShared ==
    pc = "return" =>
        LET Agree(r) == \A n \in FieldNames \ SharedFields : imageData[n] = r[n]
        IN  /\ \A n \in FieldNames :
                  imageData[n] # generic[n] => n \in GpsOnlyFields \cup SharedFields
            /\ Agree(Reversed)

\* The field loop decoded CameraMake and TimeOffset, and the GPS pass then
\* replaced TimeOffset by the offset of the zone of Rome: the other order
\* gives another TimeOffset and the same CameraMake.
SharedFieldSeen ==
    /\ pc = "return"
    /\ generic.TimeOffset = "+05:00"
    /\ generic.CameraMake = "Canon"
    /\ imageData.GPSTimeZone = "Europe/Rome"
    /\ imageData.TimeOffset \in {"+0100", "+0200"}
    /\ imageData.CameraMake = "Canon"
    /\ Reversed.TimeOffset = "+05:00"

\* The GPS coordinates ifd.GpsInfo() gave are numbers.
ValidCoordinates ==
    /\ ifdIndex.hasGps
    /\ gps.ok
    /\ ~IsNaN(gps.info.Latitude)
    /\ ~IsNaN(gps.info.Longitude)

\* The zone name the timezone finder derives from the coordinates, "" when
\* there is no finder or it knows no zone for them.
DerivedZone ==
    IF ValidCoordinates /\ tzFinder
    THEN GetTimezoneName(gps.info.Longitude, gps.info.Latitude)
    ELSE ""

\* C6: the record Parse returns has HasTimeOffset set exactly when a zone
\* name was derived from the GPS coordinates and that zone loads, and then
\* its TimeOffset is the offset computed for that zone.
HasTimeOffsetIffResolved ==
    pc = "done" =>
        /\ ret.data.HasTimeOffset <=>
              (~flatErr /\ ~collectErr /\ DerivedZone # ""
                /\ LoadLocation(DerivedZone).ok)
        /\ ret.data.HasTimeOffset =>
              /\ ret.data.GPSTimeZone = DerivedZone
              /\ ret.data.TimeOffset =
                    FormatOffset(Lookup(ZoneLoc(DerivedZone), now,
                                        localZone).offset)

\* Parse returned a record with the offset of Rome in winter.
TimeOffsetSetSeen ==
    /\ pc = "done"
    /\ DerivedZone = "Europe/Rome"
    /\ now = At(2026, 1, 15, 12, 0)
    /\ ret.data.HasTimeOffset
    /\ ret.data.TimeOffset = "+0100"

\* The GPS pass was given a latitude or a longitude that is not a number.
NaNCoordinates ==
    /\ Returned
    /\ ifdIndex.hasGps
    /\ gps.ok
    /\ IsNaN(gps.info.Latitude) \/ IsNaN(gps.info.Longitude)

\* C7 as the spec states it: with a NaN coordinate the coordinates are zero,
\* zone and offset are empty, HasTimeOffset is false, no zone was looked up
\* and Parse returns no error.
NaNLeavesOffsetEmpty ==
    NaNCoordinates =>
        /\ ret.data.GPSLatitude = FloatZero
        /\ ret.data.GPSLongitude = FloatZero
        /\ ret.data.GPSTimeZone = ""
        /\ ret.data.TimeOffset = ""
        /\ ~ret.data.HasTimeOffset
        /\ tzLookups = 0
        /\ ret.err = ""

\* C7, amended: with a NaN coordinate the coordinates are zero, the zone is
\* empty, HasTimeOffset is false, no zone was looked up and Parse returns no
\* error; TimeOffset is what the field loop decoded from OffsetTime,
\* OffsetTimeOriginal or OffsetTimeDigitized, and empty only when the map
\* holds none of them.
NaNLeavesOffsetOfLoop ==
    NaNCoordinates =>
        /\ ret.data.GPSLatitude = FloatZero
        /\ ret.data.GPSLongitude = FloatZero
        /\ ret.data.GPSTimeZone = ""
        /\ ret.data.TimeOffset =
              IF Present("TimeOffset", metadata) = {} THEN ""
              ELSE metadata[Selected("TimeOffset", metadata)]
        /\ ~ret.data.HasTimeOffset
        /\ tzLookups = 0
        /\ gpsErr = "invalid GPS coordinates"
        /\ ret.err = ""

\* A NaN latitude next to OffsetTime = "+05:00" in the map: the record Parse
\* returned has that TimeOffset.
NaNWithOffsetSeen ==
    /\ NaNCoordinates
    /\ IsNaN(gps.info.Latitude)
    /\ tzFinder
    /\ "OffsetTime" \in DOMAIN metadata
    /\ ret.data.TimeOffset = "+05:00"
    /\ ret.data.GPSLatitude = FloatZero
    /\ tzLookups = 0

(***************************************************************************)
(* Properties of the timezone adjustment.                                  *)
(***************************************************************************)
CaptureFields == {"DateTime", "DateTimeOriginal", "DateTimeDigitized"}

\* The GPS pass ran, derived a zone from the coordinates, and the zone loads.
Adjusted ==
    /\ pc = "return"
    /\ DerivedZone # ""
    /\ LoadLocation(DerivedZone).ok

\* The string the field loop decoded the capture-time field n from.
Source(n) == metadata[Selected(n, metadata)]

\* The field loop decoded the capture-time field n to a time that is not zero.
Captured(n) == Present(n, metadata) # {} /\ ~IsZero(generic[n])

\* The string names no zone: neither an offset nor the marker Z.
ZoneLess(v) ==
    /\ isDigit(v, Len(v))
    /\ \A i \in 1..Len(v) : Char(v, i) \notin {"+", "-", "Z"}

\* The wall clock c is one a clock in loc shows: an instant of a period of
\* loc shows it under the offset of that period.
ExistsIn(c, loc) ==
    LET ps   == Periods(loc, localZone)
        wall == Instant(DaysFromCivil(c.year, c.month, c.day),
                        c.hour * 3600 + c.minute * 60 + c.second)
    IN  \E k \in 1..Len(ps) :
            /\ ~Before(AddSec(wall, 0 - ps[k].off), ps[k].start)
            /\ k < Len(ps) => Before(AddSec(wall, 0 - ps[k].off), ps[k + 1].start)

\* C8 as the spec states it: a capture time without zone information keeps
\* year, month, day, hour, minute, second and sub-second through the
\* adjustment and gets the derived zone, whatever the wall clock and the zone;
\* a zero capture time stays as it is.
ZoneLessKeepsClock ==
    Adjusted =>
        \A n \in CaptureFields :
            /\ IsZero(generic[n]) => imageData[n] = generic[n]
            /\ Captured(n) /\ ZoneLess(Source(n)) =>
                  /\ imageData[n].loc = ZoneLoc(DerivedZone)
                  /\ Clock(imageData[n], localZone) = Clock(generic[n], localZone)

\* C8, amended: a capture time without zone information gets the derived
\* zone, and it keeps year, month, day, hour, minute, second and sub-second
\* exactly when a clock in that zone shows its wall clock; a wall clock the
\* zone skips at a change to daylight-saving time is moved.  A zero capture
\* time stays as it is.
ZoneLessKeepsExistingClock ==
    Adjusted =>
        \A n \in CaptureFields :
            /\ IsZero(generic[n]) => imageData[n] = generic[n]
            /\ Captured(n) /\ ZoneLess(Source(n)) =>
                  /\ imageData[n].loc = ZoneLoc(DerivedZone)
                  /\ ExistsIn(Clock(generic[n], localZone), ZoneLoc(DerivedZone))
                     <=> Clock(imageData[n], localZone)
                             = Clock(generic[n], localZone)

\* A capture time of 02:30:00.25 on the day Rome leaves daylight-saving time,
\* written without a zone, shows the same wall clock in the zone of Rome
\* after the adjustment.
RelabelSeen ==
    /\ Adjusted
    /\ DerivedZone = "Europe/Rome"
    /\ Captured("DateTimeOriginal")
    /\ Source("DateTimeOriginal") = "2024:10:27 02:30:00.25"
    /\ imageData.DateTimeOriginal.loc = ZoneLoc("Europe/Rome")
    /\ Clock(imageData.DateTimeOriginal, localZone) =
          [year |-> 2024, month |-> 10, day |-> 27, hour |-> 2, minute |-> 30,
           second |-> 0, nsec |-> 250000000]

\* C9: a capture time whose string names a zone (an offset, +0000 among
\* them, or the marker Z) is converted into the derived zone: it is the same
\* instant after the adjustment, in the derived zone.
ZonedIsConverted ==
    Adjusted =>
        \A n \in CaptureFields :
            Captured(n) /\ ~ZoneLess(Source(n)) =>
                /\ imageData[n].loc = ZoneLoc(DerivedZone)
                /\ InstantOf(imageData[n]) = InstantOf(generic[n])
                /\ imageData[n].nsec = generic[n].nsec

\* The digits of s from position i to position j spell the number n.
Spells(s, i, j, n) ==
    AllDigits(SubSeq(s, i, j)) /\ DecValue(SubSeq(s, i, j)) = n

\* C10: when a zone is derived and loads, TimeOffset is the offset of that
\* zone at the instant the adjustment runs, whatever the capture times: a
\* sign, "+" for an offset of 0 or more and "-" below, two digits for the
\* hours |offset| div 3600 and two for the minutes (|offset| mod 3600) div 60;
\* and HasTimeOffset is true.
TimeOffsetIsOffsetNow ==
    Adjusted =>
        LET offset == Lookup(ZoneLoc(DerivedZone), now, localZone).offset
            abs    == IF offset < 0 THEN 0 - offset ELSE offset
            s      == imageData.TimeOffset
        IN  /\ imageData.HasTimeOffset
            /\ Len(s) = 5
            /\ Char(s, 1) = (IF offset >= 0 THEN "+" ELSE "-")
            /\ Spells(s, 2, 3, abs \div 3600)
            /\ Spells(s, 4, 5, (abs % 3600) \div 60)

\* In St. John's in winter, next to a capture time of June: TimeOffset is
\* the offset of the winter, three and a half hours behind UTC.
HalfHourOffsetSeen ==
    /\ Adjusted
    /\ DerivedZone = "America/St_Johns"
    /\ now = At(2026, 1, 15, 12, 0)
    /\ Captured("DateTimeOriginal")
    /\ Clock(generic.DateTimeOriginal, localZone).month = 6
    /\ imageData.TimeOffset = "-0330"
    /\ imageData.HasTimeOffset

(***************************************************************************)
(* Rational: parsing and formatting.                                       *)
(***************************************************************************)
\* The numerator and the denominator as text spells them.
Parts == Split(text, "/")

\* A spelling of an integer as %d writes it: no plus sign, no leading zero,
\* no negative zero.
Canonical(p) ==
    LET digits == IF HasPrefix(p, "-") THEN Tail(p) ELSE p
    IN  /\ ~HasPrefix(p, "+")
        /\ Len(digits) = 1 \/ ~HasPrefix(digits, "0")
        /\ ~(HasPrefix(p, "-") /\ digits = "0")

\* The caller has formatted the Rational NewRational accepted.
Formatted == pc = "done" /\ rational.ok

\* C11: for every string "N/D" that NewRational accepts, the String of the
\* Rational it returns is that string, character for character.
RoundTrip == Formatted => formatted = text

\* C11, amended: the String of the Rational NewRational returns for an
\* accepted "N/D" is that string exactly when N and D are spelled as %d
\* writes them; with a plus sign, a leading zero or a negative zero the
\* String differs, and it is always accepted again as the same Rational.
RoundTripCanonical ==
    Formatted =>
        /\ formatted = text <=> (Canonical(Parts[1]) /\ Canonical(Parts[2]))
        /\ NewRational(formatted) = rational

\* A negative numerator and a denominator of two digits came back unchanged.
RoundTripSeen == Formatted /\ text = "-3/10" /\ formatted = "-3/10"

(***************************************************************************)
(* The metadata map and the thumbnail directory.                           *)
(***************************************************************************)
\* The entry is not located in the thumbnail directory.
IsMain(entry) == entry.IfdPath # ThumbnailFqIfdPath

\* The entries of the payload outside the thumbnail directory, in order.
MainEntries == SelectSeq(entries, IsMain)

\* The metadata map has been built.
MapBuilt == pc # "buildMetadataMap" /\ ~flatErr

\* C12: an entry of the thumbnail directory never contributes to the
\* metadata map: the map built from the entries is the map built from the
\* entries outside the thumbnail directory, and every value of the map is
\* the leading segment of the value of an entry outside it, also when a
\* thumbnail entry has the tag name of another entry before or after it.
ThumbnailSuppressed ==
    MapBuilt =>
        /\ metadata = buildMetadataMap(MainEntries)
        /\ \A n \in DOMAIN metadata :
              \E k \in 1..Len(MainEntries) :
                 /\ MainEntries[k].TagName = n
                 /\ Split(MainEntries[k].FormattedFirst, NUL)[1] = metadata[n]

\* A thumbnail entry was visited after a main-image entry of the same tag
\* name, and the map holds the value of the main-image entry.
ThumbnailAfterMainSeen ==
    /\ MapBuilt
    /\ entries = <<Entry("Make", "IFD", "Canon"), Entry("Make", "IFD1", "Thumb")>>
    /\ metadata = [n \in {"Make"} |-> "Canon"]

(***************************************************************************)
(* A directory index without a GPS directory.                              *)
(***************************************************************************)
\* The fields of the record named GPS...: coordinates, altitude, timezone
\* name, both timestamps and the auxiliary scalar fields.
GpsFields == {n \in FieldNames : HasPrefix(n, "GPS")}

\* Parse returned a record for a directory index without a GPS directory.
NoGpsDirectory == Returned /\ ~ifdIndex.hasGps

\* C13: if the directory index has no GPS directory, every GPS field of the
\* returned record is at its zero value, HasTimeOffset is false, every other
\* field is as the generic pass left it, and Parse returns a nil error.
NoGpsDirectoryLeavesZero ==
    NoGpsDirectory =>
        /\ \A n \in GpsFields : ret.data[n] = ImageDataZero[n]
        /\ ~ret.data.HasTimeOffset
        /\ \A n \in FieldNames \ GpsFields : ret.data[n] = generic[n]
        /\ tzLookups = 0
        /\ gpsErr = "no GPS info found"
        /\ ret.err = ""

\* A record without a GPS directory whose map holds the key GPSSpeed and a
\* camera make: the make is returned, the speed is zero.
NoGpsDirectorySeen ==
    /\ NoGpsDirectory
    /\ "GPSSpeed" \in DOMAIN metadata
    /\ metadata["GPSSpeed"] = "12.5"
    /\ ret.data.CameraMake = "Canon"
    /\ ret.data.GPSSpeed = FloatZero

(***************************************************************************)
(* ImageInfo: the dimensions of the image and the kind of the file.        *)
(***************************************************************************)
\* Exif returned without an error for a file whose pixel configuration
\* decodes.
ExifSucceeded ==
    /\ caller \in {"IsPhoto", "IsImage", "done"}
    /\ exifErr = ""
    /\ file.config.ok

\* C14: for a file whose pixel configuration decodes, after NewImageInfo and
\* a successful Exif the width and the height of ImageData are positive,
\* whether the file has no EXIF data or EXIF data without width and height
\* tags: Exif does not lose the dimensions NewImageInfo found.
DimensionsKept ==
    ExifSucceeded =>
        /\ info.ImageData.ImageWidth > 0
        /\ info.ImageData.ImageHeight > 0

\* The owner of the ImageInfo has asked for the kind of the file.
Classified == caller = "done"

\* C15: for every file type of ImageFileTypes exactly one of IsPhoto and
\* IsImage is true (jpg, heic and heif are photos; bmp, gif, png, tiff and
\* webp are images), and for a file type outside the list both are false.
PhotoXorImage ==
    Classified =>
        /\ isPhoto = (info.FileType \in {"jpg", "heic", "heif"})
        /\ isImage = (info.FileType \in {"bmp", "gif", "png", "tiff", "webp"})
        /\ IF \E k \in 1..Len(ImageFileTypes) : ImageFileTypes[k] = info.FileType
           THEN isPhoto # isImage
           ELSE ~isPhoto /\ ~isImage

\* A file named .heic was found to be a photo and no image.
HeicPhotoSeen ==
    /\ Classified
    /\ file.ext = ".heic"
    /\ info.FileType = "heic"
    /\ isPhoto
    /\ ~isImage

(***************************************************************************)
(* The GPS pass after coordinates that are not numbers.                    *)
(***************************************************************************)
\* The keys of the auxiliary GPS scalar fields.
AuxKeys ==
    {GPSTextKeys[k] : k \in 1..Len(GPSTextKeys)}
    \cup {GPSFloatKeys[k] : k \in 1..Len(GPSFloatKeys)}

\* C16: when the GPS latitude or longitude is NaN the GPS pass goes on with
\* the altitude and the auxiliary fields: a non-zero altitude is stored in
\* GPSAltitude, and every auxiliary GPS scalar field whose key the metadata
\* map holds is populated from it.
NaNContinues ==
    NaNCoordinates =>
        /\ gps.info.Altitude # 0 =>
              ret.data.GPSAltitude = Float(gps.info.Altitude, 0)
        /\ \A n \in AuxKeys \cap DOMAIN metadata :
              ret.data[n] = processAdditionalGPSMetadata(ImageDataZero, metadata)[n]

(***************************************************************************)
(* The GPS timestamp and its local time.                                   *)
(***************************************************************************)
\* C17: in every record Parse returns, GPSTimestampLocal is non-zero only if
\* GPSTimestamp is non-zero and GPSTimeZone is non-empty; then it is the
\* instant of GPSTimestamp shown in the zone GPSTimeZone, and GPSTimestamp
\* is the UTC value read from the GPS directory.
LocalTimeIsTimestampInZone ==
    Returned /\ ~IsZero(ret.data.GPSTimestampLocal) =>
        /\ ~IsZero(ret.data.GPSTimestamp)
        /\ ret.data.GPSTimeZone # ""
        /\ InstantOf(ret.data.GPSTimestampLocal) = InstantOf(ret.data.GPSTimestamp)
        /\ ret.data.GPSTimestampLocal.nsec = ret.data.GPSTimestamp.nsec
        /\ LoadLocation(ret.data.GPSTimeZone).ok
        /\ ret.data.GPSTimestampLocal.loc = LoadLocation(ret.data.GPSTimeZone).loc
        /\ ret.data.GPSTimestamp = gps.info.Timestamp
        /\ ret.data.GPSTimestamp.loc = UTC

\* A GPS time of 10:00 UTC taken in Rome in June: the local time shows 12:00
\* in Europe/Rome.
LocalTimeSeen ==
    /\ Returned
    /\ ret.data.GPSTimeZone = "Europe/Rome"
    /\ ret.data.GPSTimestamp = GpsTime
    /\ ~IsZero(ret.data.GPSTimestampLocal)
    /\ Clock(ret.data.GPSTimestampLocal, localZone).hour = 12

(***************************************************************************)
(* A zone name that does not resolve.                                      *)
(***************************************************************************)
\* Parse returned a record whose coordinates gave a zone name that
\* time.LoadLocation does not know.
Unresolved ==
    /\ Returned
    /\ DerivedZone # ""
    /\ ~LoadLocation(DerivedZone).ok

\* C18 as the spec states it: if the derived zone name does not resolve,
\* GPSTimeZone is that name, HasTimeOffset is false, TimeOffset and
\* GPSTimestampLocal are unset, the three capture times are as the generic
\* pass left them and Parse returns no error.
UnresolvedLeavesUnset ==
    Unresolved =>
        /\ ret.data.GPSTimeZone = DerivedZone
        /\ ~ret.data.HasTimeOffset
        /\ ret.data.TimeOffset = ""
        /\ IsZero(ret.data.GPSTimestampLocal)
        /\ \A n \in CaptureFields : ret.data[n] = generic[n]
        /\ ret.err = ""

\* C18, amended: if the derived zone name does not resolve, GPSTimeZone is
\* that name, HasTimeOffset is false, GPSTimestampLocal is unset, TimeOffset
\* and the three capture times are as the generic pass left them (TimeOffset
\* is empty only when the map holds none of its tags), and Parse returns no
\* error.
UnresolvedLeavesLoop ==
    Unresolved =>
        /\ ret.data.GPSTimeZone = DerivedZone
        /\ ~ret.data.HasTimeOffset
        /\ ret.data.TimeOffset = generic.TimeOffset
        /\ ret.data.TimeOffset =
              IF Present("TimeOffset", metadata) = {} THEN ""
              ELSE metadata[Selected("TimeOffset", metadata)]
        /\ IsZero(ret.data.GPSTimestampLocal)
        /\ \A n \in CaptureFields : ret.data[n] = generic[n]
        /\ ret.err = ""

\* A photo taken in a zone the zone database does not hold, with a GPS time
\* and a capture time: the zone name and the GPS time are set, the local
\* time is not, and the capture time is the one the field loop parsed.
UnresolvedSeen ==
    /\ Unresolved
    /\ ret.data.GPSTimeZone = "America/Ciudad_Juarez"
    /\ ret.data.GPSTimestamp = GpsTime
    /\ IsZero(ret.data.GPSTimestampLocal)
    /\ ~IsZero(generic.DateTimeOriginal)
    /\ ret.data.DateTimeOriginal = generic.DateTimeOriginal

(***************************************************************************)
(* The auxiliary GPS scalar fields.                                        *)
(***************************************************************************)
\* Parse returned a record whose GPS pass reached the auxiliary fields.
AuxProcessed == Returned /\ ValidCoordinates

\* The keys of the numeric auxiliary fields.
FloatKeys == {GPSFloatKeys[k] : k \in 1..Len(GPSFloatKeys)}

\* C19: each auxiliary GPS scalar field is read from the metadata map by
\* its own key: it is at zero when the map lacks the key, a text field is
\* the value of the key, a numeric field is the float the value spells, and
\* a numeric value that does not parse as a float leaves its field at zero
\* and raises no error.
AuxFailureLeavesZero ==
    AuxProcessed =>
        /\ \A n \in AuxKeys \ DOMAIN metadata : ret.data[n] = ImageDataZero[n]
        /\ \A n \in (AuxKeys \ FloatKeys) \cap DOMAIN metadata :
              ret.data[n] = metadata[n]
        /\ \A n \in FloatKeys \cap DOMAIN metadata :
              ret.data[n] = IF ParseFloat(metadata[n]).ok
                            THEN ParseFloat(metadata[n]).v ELSE FloatZero
        /\ gpsErr = ""
        /\ ret.err = ""

(***************************************************************************)
(* Concurrent calls of Parse and the tag cache.                            *)
(***************************************************************************)
\* C20: two calls of Parse that run concurrently on one ExifDataParser never
\* access tagCache at the same time with one of them writing: no goroutine
\* is about to store into the cache while another is about to read it or
\* to store into it, and the runtime never stops the program.
CacheAccessExclusive ==
    /\ \A g \in Goroutines : Writing(g) => ~Racing(g, TRUE)
    /\ ~fatal

(***************************************************************************)
(* The keys and the values of the metadata map.                            *)
(***************************************************************************)
\* The part of the formatted value of an entry before its first NUL.
Leading(entry) ==
    IF IndexByte(entry.FormattedFirst, NUL) = 0 THEN entry.FormattedFirst
    ELSE SubSeq(entry.FormattedFirst, 1, IndexByte(entry.FormattedFirst, NUL) - 1)

\* The positions of the entries that write the key n: outside the thumbnail
\* directory, with the tag name n and a non-empty leading segment.
Writers(n) ==
    {k \in 1..Len(entries) :
        /\ IsMain(entries[k])
        /\ entries[k].TagName = n
        /\ Leading(entries[k]) # ""}

\* The largest element of a non-empty set of positions.
Last(S) == CHOOSE k \in S : \A j \in S : j <= k

\* C21: after buildMetadataMap every key of the map is a non-empty tag name
\* and every value is non-empty, holds no NUL and is the leading segment of
\* a non-thumbnail entry of that tag name; an entry with an empty tag name
\* or an empty leading segment neither adds a key nor overwrites one: the
\* keys are the non-empty tag names with a writer, and each value is the
\* leading segment of the last writer.
MapHoldsLeadingSegments ==
    MapBuilt =>
        /\ \A n \in DOMAIN metadata :
              /\ n # ""
              /\ metadata[n] # ""
              /\ IndexByte(metadata[n], NUL) = 0
              /\ Writers(n) # {}
              /\ metadata[n] = Leading(entries[Last(Writers(n))])
        /\ \A k \in 1..Len(entries) :
              entries[k].TagName # "" /\ Writers(entries[k].TagName) # {}
                 => entries[k].TagName \in DOMAIN metadata

\* A value cut at its NUL was followed by an entry of the same tag name with
\* an empty leading segment: the map still holds the cut value.
LeadingSegmentSeen ==
    /\ MapBuilt
    /\ entries = <<Entry("Make", "IFD", "Nikon$junk"), Entry("Make", "IFD", "$hidden")>>
    /\ metadata = [n \in {"Make"} |-> "Nikon"]

=============================================================================
